---- MODULE Spec2Model ----
(***************************************************************************)
(* Crawl orchestration of NewsGPTArchive: crawlNews, processCategoryParallel *)
(* and processKeyword (src/shared/schema.ts), the two triggers that start a  *)
(* run (POST /api/crawl and runScheduledCrawl) and the article store.        *)
(*                                                                           *)
(* The server is a single Node.js process: code between two awaits runs      *)
(* atomically, so every action below is one such stretch, started by the     *)
(* completion of the awaited external call (search API, LLM, database,       *)
(* timer).                                                                   *)
(***************************************************************************)
EXTENDS Integers, Sequences, FiniteSets, Bags, TLC

VARIABLES now, config, pool, quota, overlapped, store, runs, bf, wss, call,
          sched, hook

vars ==
  <<now, config, pool, quota, overlapped, store, runs, bf, wss, call, sched,
    hook>>

(* ------------------------------ bounds ---------------------------------- *)

\* largest number of search hits of the keyword in the selector scenarios
MaxCands == 4

\* largest number of keywords of a category in the sequential scenarios
MaxKeywords == 6

\* number of crawl triggers in the scenarios with several runs
MaxRuns == 2

\* number of clock advances in the scenarios with several runs
MaxTicks == 1

\* largest number of observers and of published events in the broadcaster
\* scenarios
MaxClients == 2

MaxEvents == 2

\* longest text the LLM replies with to a summary request
MaxText == 3

\* longest body of a headline in the title scenarios
MaxBody == 6

\* largest number of hits of a live search (but for the long list), and of
\* elements of the LLM's reply to its analysis request
MaxItems == 2

MaxReply == 2

\* largest number of entity tokens and fragments of a text to decode
MaxTokens == 3

\* number of requests to the scheduler (server start, PUT /api/scheduler,
\* shutdown), and the deepest nesting of its calls within one request
MaxRequests == 2

MaxDepth == 5

\* largest number of WebSockets a progress hook creates
MaxSockets == 2

(* --------------------------- program constants --------------------------- *)

BATCH_SIZE == 5

Runs == 1..MaxRuns

\* wall-clock instants (hours since 00:00 UTC of day 0) the clock takes:
\* 10:00 and 22:00 UTC of consecutive days, i.e. both sides of KST midnight
Instants == {10 + 12 * k : k \in 0..MaxTicks}

(* ------------------------------ dates ------------------------------------ *)

\* new Date().toISOString().split("T")[0]: the UTC calendar day
UTCDateString(t) == t \div 24

\* getKSTDateString: the calendar day of (t + 9 hours)
getKSTDateString(t) == (t + 9) \div 24

(* --------------------------- search candidates --------------------------- *)

\* A cleaned search hit: promo = title+description contains a blocklist term,
\* tlen / dlen = length of the cleaned title / of the description.
Cand(p, t, d) == [promo |-> p, tlen |-> t, dlen |-> d]

Plain == Cand(FALSE, 1, 1)
Promo == Cand(TRUE, 1, 1)
NoBody == Cand(FALSE, 1, 0)

\* A search hit with its text: text = the set of character bigrams of the
\* string the similarity is taken of
TextCand(p, t, d, text) ==
  [promo |-> p, tlen |-> t, dlen |-> d, text |-> text]

\* search results of the scenarios with several runs
MultiPool == { <<>>, <<Plain>> }

\* search results of the scenario with a full batch of keywords
BatchPool == MultiPool \cup { <<Promo, Promo>> }

\* search results of the scenarios with few keywords
SmallPool == BatchPool \cup { <<Plain, Plain, Plain, Plain>> }

(* --------------------------- pure functions ------------------------------ *)

filterPromotionalArticles(articles) ==
  SelectSeq(articles, LAMBDA a : ~a.promo)

Min(a, b) == IF a <= b THEN a ELSE b

\* Array.from({length: n}, (_, i) => i)
FirstIndices(n) == [j \in 1..n |-> j - 1]

\* .slice(0, n)
Slice(s, n) == SubSeq(s, 1, Min(n, Len(s)))

\* The LLM reply of the ranking request, after content.match(...): either
\* "error" (request failed / empty content), "nomatch" (no index list in the
\* text) or the parsed integers of the list.
RankReplyIndices(articles, topN, reply) ==
  IF reply.kind = "list"
    THEN LET valid == SelectSeq(reply.ints,
                        LAMBDA n : n >= 0 /\ n < Len(articles))
             indices == Slice(valid, topN)
         IN  IF Len(indices) = 0 THEN FirstIndices(topN) ELSE indices
    ELSE IF reply.kind = "nomatch"
      THEN FirstIndices(topN)
      ELSE FirstIndices(Min(topN, Len(articles)))

\* the branch of selectTopImportantArticles a reply is handled by
RankOutcome(articles, topN, reply) ==
  IF reply.kind = "list"
    THEN IF Len(Slice(SelectSeq(reply.ints,
                        LAMBDA n : n >= 0 /\ n < Len(articles)), topN)) = 0
           THEN "novalid" ELSE "valid"
    ELSE reply.kind

\* the request is sent whenever the credentials exist, also for topN
\* articles or fewer
RankNeedsRequest_always(articles, topN, hasKey) ==
  hasKey /\ Len(articles) > 0

\* TRUE when selectTopImportantArticles sends a request to the LLM
RankNeedsRequest(articles, topN, hasKey) ==
  hasKey /\ Len(articles) > topN

\* selectTopImportantArticles when no request is sent
RankWithoutRequest(articles, topN, hasKey) ==
  IF ~hasKey
    THEN FirstIndices(Min(topN, Len(articles)))
    ELSE FirstIndices(Len(articles))

\* index (1-based) of the first element with the largest dlen: the head of
\* a stable descending sort by description.length
RECURSIVE LongestFrom(_, _, _)
LongestFrom(s, j, best) ==
  IF j > Len(s) THEN best
  ELSE LongestFrom(s, j + 1, IF s[j].dlen > s[best].dlen THEN j ELSE best)

\* Step 2 without the sort: the first of the top articles is taken
SelectLongestOfTop_firstOfTop(filteredArticles, topIndices) ==
  IF Len(topIndices) = 0 THEN <<>>
  ELSE
    LET inRange == SelectSeq(topIndices,
                     LAMBDA i : i >= 0 /\ i < Len(filteredArticles))
        mapped == [j \in 1..Len(inRange) |-> filteredArticles[inRange[j] + 1]]
        topArticles == SelectSeq(mapped, LAMBDA a : a.tlen > 0 /\ a.dlen > 0)
    IN  IF Len(topArticles) = 0 THEN <<>> ELSE <<topArticles[1]>>

\* Step 2 of findRepresentativeArticle: <<article>> or <<>> for null
SelectLongestOfTop(filteredArticles, topIndices) ==
  IF Len(topIndices) = 0 THEN <<>>
  ELSE
    LET inRange == SelectSeq(topIndices,
                     LAMBDA i : i >= 0 /\ i < Len(filteredArticles))
        mapped == [j \in 1..Len(inRange) |-> filteredArticles[inRange[j] + 1]]
        topArticles == SelectSeq(mapped, LAMBDA a : a.tlen > 0 /\ a.dlen > 0)
    IN  IF Len(topArticles) = 0 THEN <<>>
        ELSE <<topArticles[LongestFrom(topArticles, 1, 1)]>>

\* compareTwoStrings of string-similarity: 1 for equal strings, 0 when a
\* string has no bigram, else the Dice coefficient 2 |A n B| / (|A| + |B|)
\* of the bigrams; in units of 1/60
compareTwoStrings(first, second) ==
  IF first = second THEN 60
  ELSE IF first = {} \/ second = {} THEN 0
  ELSE (120 * Cardinality(first \cap second))
         \div (Cardinality(first) + Cardinality(second))

\* totalSimilarity / (length - 1) of the element at position i, in units
\* of 1/3600
AverageSimilarity(texts, i) ==
  LET RECURSIVE Total(_)
      Total(j) == IF j = 0 THEN 0
                  ELSE (IF j # i THEN compareTwoStrings(texts[i], texts[j])
                        ELSE 0) + Total(j - 1)
  IN  (Total(Len(texts)) * 60) \div (Len(texts) - 1)

\* the scan keeps the later of two equal scores
RECURSIVE FirstMaxFrom_lastOfTies(_, _, _)
FirstMaxFrom_lastOfTies(scores, j, best) ==
  IF j > Len(scores) THEN best
  ELSE FirstMaxFrom_lastOfTies(scores, j + 1,
                               IF scores[j] >= scores[best] THEN j ELSE best)

\* position of the first largest score: scores.indexOf(Math.max(...scores)),
\* and the head of a stable descending sort
RECURSIVE FirstMaxFrom(_, _, _)
FirstMaxFrom(scores, j, best) ==
  IF j > Len(scores) THEN best
  ELSE FirstMaxFrom(scores, j + 1,
                    IF scores[j] > scores[best] THEN j ELSE best)

\* the candidate with the largest average similarity to the others
MostSimilar(articles) ==
  LET texts == [i \in 1..Len(articles) |-> articles[i].text]
      similarityScores ==
        [i \in 1..Len(articles) |-> AverageSimilarity(texts, i)]
  IN  articles[FirstMaxFrom(similarityScores, 1, 1)]

\* the policy of the nightly crawl in the backfill selector: null when the
\* filter leaves nothing
findRepresentativeArticle_backfill_nullOnExhaustion(articles) ==
  LET filteredArticles == filterPromotionalArticles(articles)
  IN  IF Len(articles) = 0 THEN <<>>
      ELSE IF Len(articles) = 1 THEN <<articles[1]>>
      ELSE IF Len(filteredArticles) = 0 THEN <<>>
      ELSE IF Len(filteredArticles) = 1 THEN <<filteredArticles[1]>>
      ELSE <<MostSimilar(filteredArticles)>>

\* findRepresentativeArticle of the backfill (notifier.ts): <<article>> or
\* <<>> for null; promo is the match against the backfill's own blocklist
findRepresentativeArticle_backfill(articles) ==
  LET filteredArticles == filterPromotionalArticles(articles)
  IN  IF Len(articles) = 0 THEN <<>>
      ELSE IF Len(articles) = 1 THEN <<articles[1]>>
      ELSE IF Len(filteredArticles) = 0 THEN <<articles[1]>>
      ELSE IF Len(filteredArticles) = 1 THEN <<filteredArticles[1]>>
      ELSE <<MostSimilar(filteredArticles)>>

(* ------------------------------ storage ---------------------------------- *)

\* A row of the articles table.  run is the crawlNews invocation that
\* inserted it (the row id is fresh for every insert, so equal rows are
\* counted, not merged: the store is a bag).
Article(r, c, k, date, title, summary) ==
  [run |-> r, cat |-> c, kw |-> k, date |-> date, title |-> title,
   summary |-> summary]

\* storage.createArticleWithDate
createArticleWithDate(st, article) == st (+) SetToBag({article})

\* storage.deleteArticlesByDate: DELETE ... WHERE DATE(crawled_date) = date
deleteArticlesByDate(st, date) ==
  [a \in {x \in DOMAIN st : x.date # date} |-> st[a]]

(* ------------------------------ events ----------------------------------- *)

KwEv(type, success, reason) ==
  [type |-> type, success |-> success, reason |-> reason]

RunEv(type, cat, count, total, success, totalSuccess) ==
  [type |-> type, cat |-> cat, count |-> count, total |-> total,
   failed |-> 0, success |-> success, totalSuccess |-> totalSuccess]

\* category_completed{success, totalSuccess, articlesCount, totalKeywords,
\* failedKeywords}
CompletedEv(cat, count, total, failed, success, totalSuccess) ==
  [RunEv("category_completed", cat, count, total, success, totalSuccess)
     EXCEPT !.failed = failed]

(* --------------------------- keyword processor --------------------------- *)

\* rank records how selectTopImportantArticles came to its indices: "none"
\* (not called), "all" (no more articles than topN), "nokey" (credentials
\* missing), "error" (request failed or empty content), "nomatch" (no index
\* list in the reply), "novalid" (no index of the list in range), "valid";
\* top records the indices it returned
IdleTask ==
  [pc |-> "idle", calls |-> 0, inserted |-> 0, cands |-> <<>>, sel |-> <<>>,
   summary |-> "", status |-> "pending", value |-> <<>>, ev |-> <<>>,
   rank |-> "none", top |-> <<>>, searchError |-> ""]

\* processKeyword up to the await of the search request
StartKeyword(t) ==
  [t EXCEPT !.pc = "fetching", !.calls = @ + 1,
            !.ev = Append(@, KwEv("keyword_started", FALSE, ""))]

\* return null after keyword_completed{success:false, reason}
EndAbsent(t, reason) ==
  [t EXCEPT !.pc = "done", !.status = "fulfilled", !.value = <<>>,
            !.cands = <<>>,
            !.ev = Append(@, KwEv("keyword_completed", FALSE, reason))]

\* processKeyword without its catch block: the exception of the insert
\* rejects the promise and no terminal event is published
CatchKeyword_rethrown(t) ==
  [t EXCEPT !.pc = "done", !.status = "rejected", !.value = <<>>,
            !.cands = <<>>]

\* the catch block of processKeyword: keyword_error, return null
CatchKeyword(t) ==
  [t EXCEPT !.pc = "done", !.status = "fulfilled", !.value = <<>>,
            !.cands = <<>>,
            !.ev = Append(@, KwEv("keyword_error", FALSE, "error"))]

\* processKeyword failing after the insert has succeeded: the row exists
\* but the attempt ends in the catch block with null
EndSaved_absent(t, article) ==
  [t EXCEPT !.pc = "done", !.status = "fulfilled", !.value = <<>>,
            !.cands = <<>>,
            !.ev = Append(@, KwEv("keyword_error", FALSE, "error"))]

\* keyword_completed{success:true}, return the new article
EndSaved(t, article) ==
  [t EXCEPT !.pc = "done", !.status = "fulfilled", !.value = <<article>>,
            !.cands = <<>>,
            !.ev = Append(@, KwEv("keyword_completed", TRUE, ""))]

\* keyword_summarizing published before keyword_article_selected
AfterSelection_summarizingFirst(t, article, hasKey) ==
  [t EXCEPT !.pc = IF hasKey THEN "summarizing" ELSE "saving",
            !.sel = <<article>>, !.cands = <<>>, !.summary = "",
            !.ev = @ \o <<KwEv("keyword_summarizing", FALSE, ""),
                          KwEv("keyword_article_selected", FALSE, "")>>]

\* from the selected representative to the next await: the summarizer
\* request, or (summarizeArticle throws at once without an API key, the
\* summary stays empty) the insert
AfterSelection(t, article, hasKey) ==
  [t EXCEPT !.pc = IF hasKey THEN "summarizing" ELSE "saving",
            !.sel = <<article>>, !.cands = <<>>, !.summary = "",
            !.ev = @ \o <<KwEv("keyword_article_selected", FALSE, ""),
                          KwEv("keyword_summarizing", FALSE, "")>>]

\* the outcome of findRepresentativeArticle once the indices are known
AfterRanking(t, filteredArticles, topIndices, hasKey) ==
  LET selection == SelectLongestOfTop(filteredArticles, topIndices)
      t1 == [t EXCEPT !.top = topIndices]
  IN  IF Len(selection) = 0
        THEN EndAbsent(t1, "selection failed")
        ELSE AfterSelection(t1, selection[1], hasKey)

\* findRepresentativeArticle without its shortcut for a single candidate: the
\* candidate goes through the promotional filter and the ranking
AfterFetch_noSingleShortcut(t, articles, hasKey) ==
  LET t1 == [t EXCEPT !.ev =
               Append(@, KwEv("keyword_articles_found", FALSE, ""))]
      filteredArticles == filterPromotionalArticles(articles)
      topN == Min(3, Len(filteredArticles))
  IN  IF Len(articles) = 0 THEN EndAbsent(t1, "no articles")
      ELSE IF Len(filteredArticles) = 0 THEN EndAbsent(t1, "selection failed")
      ELSE IF RankNeedsRequest(filteredArticles, topN, hasKey)
        THEN [t1 EXCEPT !.pc = "ranking", !.cands = filteredArticles]
        ELSE AfterRanking(
               [t1 EXCEPT !.rank = IF hasKey THEN "all" ELSE "nokey"],
               filteredArticles,
               RankWithoutRequest(filteredArticles, topN, hasKey), hasKey)

\* the policy of the backfill in the nightly selector: when the filter leaves
\* nothing, the first unfiltered candidate is taken
AfterFetch_unfilteredFallback(t, articles, hasKey) ==
  LET t1 == [t EXCEPT !.ev =
               Append(@, KwEv("keyword_articles_found", FALSE, ""))]
      filteredArticles == filterPromotionalArticles(articles)
      topN == Min(3, Len(filteredArticles))
  IN  IF Len(articles) = 0 THEN EndAbsent(t1, "no articles")
      ELSE IF Len(articles) = 1 THEN AfterSelection(t1, articles[1], hasKey)
      ELSE IF Len(filteredArticles) = 0
        THEN AfterSelection(t1, articles[1], hasKey)
      ELSE IF RankNeedsRequest(filteredArticles, topN, hasKey)
        THEN [t1 EXCEPT !.pc = "ranking", !.cands = filteredArticles]
        ELSE AfterRanking(
               [t1 EXCEPT !.rank = IF hasKey THEN "all" ELSE "nokey"],
               filteredArticles,
               RankWithoutRequest(filteredArticles, topN, hasKey), hasKey)

\* processKeyword from the search result to the next await
AfterFetch(t, articles, hasKey) ==
  LET t1 == [t EXCEPT !.ev =
               Append(@, KwEv("keyword_articles_found", FALSE, ""))]
      filteredArticles == filterPromotionalArticles(articles)
      topN == Min(3, Len(filteredArticles))
  IN  IF Len(articles) = 0 THEN EndAbsent(t1, "no articles")
      ELSE IF Len(articles) = 1 THEN AfterSelection(t1, articles[1], hasKey)
      ELSE IF Len(filteredArticles) = 0 THEN EndAbsent(t1, "selection failed")
      ELSE IF RankNeedsRequest(filteredArticles, topN, hasKey)
        THEN [t1 EXCEPT !.pc = "ranking", !.cands = filteredArticles]
        ELSE AfterRanking(
               [t1 EXCEPT !.rank = IF hasKey THEN "all" ELSE "nokey"],
               filteredArticles,
               RankWithoutRequest(filteredArticles, topN, hasKey), hasKey)

(* ----------------------- backfill keyword processor ---------------------- *)

\* processKeywordForDate (notifier.ts): it publishes no progress events
\* pass counts the runs of the backfill for the date, first is the store as
\* the first of them left it
IdleBackfill ==
  [pc |-> "idle", sel |-> <<>>, summary |-> "", inserted |-> 0,
   value |-> <<>>, pass |-> 1, first |-> EmptyBag]

\* return null
BackfillAbsent(b) == [b EXCEPT !.pc = "done", !.value = <<>>]

\* processKeywordForDate from the search result to the next await
BackfillAfterFetch(b, articles, hasKey) ==
  LET representativeArticle == findRepresentativeArticle_backfill(articles)
  IN  IF Len(articles) = 0 THEN BackfillAbsent(b)
      ELSE IF Len(representativeArticle) = 0 THEN BackfillAbsent(b)
      ELSE [b EXCEPT !.pc = IF hasKey THEN "summarizing" ELSE "saving",
                     !.sel = representativeArticle, !.summary = ""]

(* --------------------------- category processor -------------------------- *)

IdleRun ==
  [pc |-> "idle", reqDate |-> -1, todayKST |-> -1,
   crawledDate |-> -1, cats |-> <<>>, ci |-> 0, lo |-> 0, tasks |-> <<>>,
   allResults |-> <<>>, newArticles |-> <<>>, inserts |-> 0, log |-> <<>>,
   notified |-> <<>>, notifyThrew |-> FALSE]

\* a slice that is one keyword too long
BatchOf_offByOne(rr, lo) ==
  {k \in 1..Len(rr.tasks) : k >= lo /\ k <= lo + BATCH_SIZE}

\* category.keywords.slice(i, i + BATCH_SIZE), as 1-based positions
BatchOf(rr, lo) ==
  {k \in 1..Len(rr.tasks) : k >= lo /\ k < lo + BATCH_SIZE}

\* a join that gives up on the first keyword that ended without an article
BatchSettled_failFast(rr) ==
  \/ \E k \in {j \in 1..Len(rr.tasks) : j >= rr.lo /\ j < rr.lo + BATCH_SIZE} :
       rr.tasks[k].status # "pending" /\ rr.tasks[k].value = <<>>
  \/ \A k \in {j \in 1..Len(rr.tasks) : j >= rr.lo /\ j < rr.lo + BATCH_SIZE} :
       rr.tasks[k].status # "pending"

\* Promise.allSettled(batchPromises) has resolved
BatchSettled(rr) ==
  \A k \in BatchOf(rr, rr.lo) : rr.tasks[k].status # "pending"

\* a keyword of an earlier iteration of the batch loop: its promise and its
\* locals are gone, its result lives on in allResults
JoinedTask(t) == [IdleTask EXCEPT !.pc = "joined", !.calls = t.calls]

\* batch.map(processKeyword): every keyword of the batch runs to its first
\* await, in order
StartBatch(rr, lo) ==
  [rr EXCEPT !.pc = "batch", !.lo = lo,
             !.tasks = [k \in DOMAIN rr.tasks |->
                          IF k \in BatchOf(rr, lo)
                            THEN StartKeyword(rr.tasks[k])
                            ELSE IF k < lo THEN JoinedTask(rr.tasks[k])
                            ELSE rr.tasks[k]]]

\* the articles of the fulfilled, non-null results, in result order
RECURSIVE ArticlesOf(_)
ArticlesOf(results) ==
  IF results = <<>> THEN <<>>
  ELSE (IF Head(results).status = "fulfilled" /\ Head(results).value # <<>>
          THEN Head(results).value ELSE <<>>) \o ArticlesOf(Tail(results))

\* sendNotification is called only for a non-empty list; crawl_completed
\* follows its return
Finish(rr) ==
  IF Len(rr.newArticles) > 0
    THEN [rr EXCEPT !.pc = "notifying",
                    !.notified = Append(@, rr.newArticles)]
    ELSE [rr EXCEPT !.pc = "done",
                    !.log = Append(@, RunEv("crawl_completed", 0,
                                     Len(rr.newArticles), 0, TRUE, TRUE))]

\* newArticles assigned instead of extended
ReturnFromCategory_overwrite(rr, articles) ==
  LET r1 == [rr EXCEPT !.newArticles = articles]
  IN  IF r1.ci < Len(r1.cats)
        THEN [r1 EXCEPT !.pc = "categoryDelay"]
        ELSE Finish(r1)

\* crawlNews after processCategoryParallel has returned articles
ReturnFromCategory(rr, articles) ==
  LET r1 == [rr EXCEPT !.newArticles = @ \o articles]
  IN  IF r1.ci < Len(r1.cats)
        THEN [r1 EXCEPT !.pc = "categoryDelay"]
        ELSE Finish(r1)

\* the articles returned without category_completed being published
CompleteCategory_silent(rr) ==
  ReturnFromCategory(rr, ArticlesOf(rr.allResults))

\* totalSuccess taken from hasSuccess: one saved keyword makes the category
\* a full completion
CompleteCategory_anySuccessIsTotal(rr) ==
  LET articles == ArticlesOf(rr.allResults)
      total == rr.cats[rr.ci]
      failedCount == total - Len(articles)
      hasSuccess == Len(articles) > 0
      ev == CompletedEv(rr.ci, Len(articles), total, failedCount,
                        hasSuccess, hasSuccess)
  IN  ReturnFromCategory([rr EXCEPT !.log = Append(@, ev)], articles)

\* processCategoryParallel after the last batch: classify and report
CompleteCategory(rr) ==
  LET articles == ArticlesOf(rr.allResults)
      total == rr.cats[rr.ci]
      failedCount == total - Len(articles)
      hasSuccess == Len(articles) > 0
      totalSuccess == failedCount = 0
      ev == CompletedEv(rr.ci, Len(articles), total, failedCount,
                        hasSuccess, totalSuccess)
  IN  ReturnFromCategory([rr EXCEPT !.log = Append(@, ev)], articles)

\* a join that rethrows a keyword's error (Promise.all over promises that
\* reject) with nothing to catch it: the run stops
AfterKeyword_abortOnError(rr) ==
  IF ~BatchSettled(rr) THEN rr
  ELSE IF \E k \in BatchOf(rr, rr.lo) :
            rr.tasks[k].ev[Len(rr.tasks[k].ev)].type = "keyword_error"
    THEN [rr EXCEPT !.pc = "failed"]
  ELSE
    LET batch == BatchOf(rr, rr.lo)
        batchResults ==
          [j \in 1..Cardinality(batch) |->
             [status |-> rr.tasks[rr.lo + j - 1].status,
              value |-> rr.tasks[rr.lo + j - 1].value]]
        r1 == [rr EXCEPT !.allResults = @ \o batchResults]
    IN  IF (r1.lo - 1) + BATCH_SIZE < Len(r1.tasks)
          THEN [r1 EXCEPT !.pc = "batchDelay"]
          ELSE CompleteCategory(r1)

\* processCategoryParallel once a keyword has reached its outcome: when the
\* whole batch has settled, push its results and go on
AfterKeyword(rr) ==
  IF ~BatchSettled(rr) THEN rr
  ELSE
    LET batch == BatchOf(rr, rr.lo)
        batchResults ==
          [j \in 1..Cardinality(batch) |->
             [status |-> rr.tasks[rr.lo + j - 1].status,
              value |-> rr.tasks[rr.lo + j - 1].value]]
        r1 == [rr EXCEPT !.allResults = @ \o batchResults]
    IN  IF (r1.lo - 1) + BATCH_SIZE < Len(r1.tasks)
          THEN [r1 EXCEPT !.pc = "batchDelay"]
          ELSE CompleteCategory(r1)

\* the empty category returns without publishing category_skipped
EnterCategory_noSkipEvent(rr, c) ==
  LET n == rr.cats[c]
      r1 == [rr EXCEPT !.ci = c,
                       !.log = Append(@, RunEv("category_started", c, n, n,
                                                FALSE, FALSE)),
                       !.tasks = [k \in 1..n |-> IdleTask],
                       !.allResults = <<>>, !.lo = 0]
  IN  IF n = 0 THEN ReturnFromCategory(r1, <<>>) ELSE StartBatch(r1, 1)

\* no early return for an empty keyword list: the batch loop runs zero times
\* and the category is classified like any other
EnterCategory_noEarlyReturn(rr, c) ==
  LET n == rr.cats[c]
      r1 == [rr EXCEPT !.ci = c,
                       !.log = Append(@, RunEv("category_started", c, n, n,
                                                FALSE, FALSE)),
                       !.tasks = [k \in 1..n |-> IdleTask],
                       !.allResults = <<>>, !.lo = 0]
  IN  IF n = 0 THEN CompleteCategory(r1) ELSE StartBatch(r1, 1)

\* processCategoryParallel(category c) up to its first await (or its return)
EnterCategory(rr, c) ==
  LET n == rr.cats[c]
      r1 == [rr EXCEPT !.ci = c,
                       !.log = Append(@, RunEv("category_started", c, n, n,
                                                FALSE, FALSE)),
                       !.tasks = [k \in 1..n |-> IdleTask],
                       !.allResults = <<>>, !.lo = 0]
  IN  IF n = 0
        THEN ReturnFromCategory(
               [r1 EXCEPT !.log = Append(@, RunEv("category_skipped", c, 0, 0,
                                                   FALSE, FALSE))], <<>>)
        ELSE StartBatch(r1, 1)

\* today's date taken in UTC, as the triggers do, for the delete
BeginCrawl_utcToday(rr, t1, t2) ==
  [rr EXCEPT !.pc = "deleting", !.reqDate = -1,
             !.todayKST = UTCDateString(t1),
             !.crawledDate = getKSTDateString(t2)]

\* crawlNews up to the await of deleteArticlesByDate(todayKST): the clock is
\* read twice (getKSTDateString, getKSTDate), at t1 and at t2
BeginCrawl(rr, t1, t2) ==
  [rr EXCEPT !.pc = "deleting", !.reqDate = -1,
             !.todayKST = getKSTDateString(t1),
             !.crawledDate = getKSTDateString(t2)]

\* crawlNews after getCategoriesWithKeywords
AfterLoad(rr, categories) ==
  LET r1 == [rr EXCEPT !.cats = categories,
                       !.log = Append(@, RunEv("crawl_started", 0,
                                        Len(categories), 0, FALSE, FALSE))]
  IN  IF Len(categories) = 0 THEN Finish(r1) ELSE EnterCategory(r1, 1)

(* --------------------------- progress broadcaster ------------------------ *)

\* client.readyState of an observer whose channel is open
OPEN == 1

\* the other states of an observer that wss.clients still holds
CLOSING == 2

CLOSED == 3

\* An observer of wss.clients: inbox is what it was sent, in order; due (the
\* events published while it was open) and failed (the events whose send to
\* it threw) are history.
Client(readyState) ==
  [readyState |-> readyState, inbox |-> <<>>, due |-> {}, failed |-> {}]

\* global.crawlProgressWss (handle: whether it is set) with its clients in
\* the order of wss.clients; published counts the calls of broadcastProgress
\* and outcome is how the last one ended
IdleWss ==
  [handle |-> FALSE, clients |-> <<>>, published |-> 0, outcome |-> "none"]

\* wss.clients.forEach(...) from position i on: an observer that is not open
\* is skipped; sends[i] is what client.send does for observer i, and a send
\* that throws ends the whole loop
RECURSIVE ForEachClient(_, _, _, _)
ForEachClient(clients, i, message, sends) ==
  IF i > Len(clients) THEN [clients |-> clients, threw |-> FALSE]
  ELSE IF clients[i].readyState # OPEN
    THEN ForEachClient(clients, i + 1, message, sends)
  ELSE IF sends[i] = "throws"
    THEN [clients |-> [clients EXCEPT ![i].failed = @ \cup {message}],
          threw |-> TRUE]
  ELSE IF sends[i] = "fails"
    THEN ForEachClient([clients EXCEPT ![i].failed = @ \cup {message}],
                       i + 1, message, sends)
  ELSE ForEachClient([clients EXCEPT ![i].inbox = Append(@, message)],
                     i + 1, message, sends)

\* the same fan-out without the try/catch around it
broadcastProgress_uncaught(w, message, sends) ==
  IF ~ w.handle THEN [w EXCEPT !.outcome = "returned"]
  ELSE LET loop == ForEachClient(w.clients, 1, message, sends)
       IN  [w EXCEPT !.clients = loop.clients,
                     !.outcome = IF loop.threw THEN "threw" ELSE "returned"]

\* broadcastProgress(message): nothing to do without the handle; whatever
\* the loop throws is caught and logged
broadcastProgress(w, message, sends) ==
  IF ~ w.handle THEN [w EXCEPT !.outcome = "returned"]
  ELSE LET loop == ForEachClient(w.clients, 1, message, sends)
       IN  [w EXCEPT !.clients = loop.clients, !.outcome = "returned"]

(* ------------------------------- texts ----------------------------------- *)

\* A text is the sequence of its characters. String.prototype.trim
RECURSIVE Trim(_)
Trim(s) ==
  IF s = <<>> THEN s
  ELSE IF Head(s) = " " THEN Trim(Tail(s))
  ELSE IF s[Len(s)] = " " THEN Trim(SubSeq(s, 1, Len(s) - 1))
  ELSE s

\* s without the white space at its end: what a leading \s* of a pattern
\* anchored at the end takes away
RECURSIVE TrimEnd(_)
TrimEnd(s) ==
  IF s # <<>> /\ s[Len(s)] = " " THEN TrimEnd(SubSeq(s, 1, Len(s) - 1))
  ELSE s

\* s without the white space at its start: a trailing \s* of a pattern
\* anchored at the start
RECURSIVE TrimStart(_)
TrimStart(s) ==
  IF s # <<>> /\ Head(s) = " " THEN TrimStart(Tail(s)) ELSE s

\* positions of the character ch in s
Positions(s, ch) == {i \in 1..Len(s) : s[i] = ch}

\* largest element of a set of positions, 0 for the empty set
Last(S) == IF S = {} THEN 0 ELSE CHOOSE i \in S : \A j \in S : j <= i

\* smallest element of a set of positions, 0 for the empty set
First(S) == IF S = {} THEN 0 ELSE CHOOSE i \in S : \A j \in S : i <= j

\* s.replace(/^\[[^\]]+\]\s*/, '') for the bracket pair open, close: a tag
\* at the start with at least one character inside, and the white space
\* after it
StripLeadingTag(s, open, close) ==
  LET j == First(Positions(s, close))
  IN  IF s # <<>> /\ s[1] = open /\ j >= 3
        THEN TrimStart(SubSeq(s, j + 1, Len(s)))
        ELSE s

\* s.replace(/\s*-\s*[^-]+$/, '') for the separator sep: the last separator
\* with the white space before it and everything after it, if anything
\* follows it
StripSeparatorSuffix(s, sep) ==
  LET d == Last(Positions(s, sep))
  IN  IF d > 0 /\ d < Len(s) THEN TrimEnd(SubSeq(s, 1, d - 1)) ELSE s

\* s.replace(/\s*\([^)]+\)$/, '') for the bracket pair open, close: s ends
\* with close, and the match starts at the first open after the previous
\* close that has at least one character inside
StripBracketSuffix(s, open, close) ==
  LET n == Len(s)
      q == Last({i \in Positions(s, close) : i < n})
      p == First({i \in Positions(s, open) : i > q /\ i <= n - 2})
  IN  IF n > 0 /\ s[n] = close /\ p > 0
        THEN TrimEnd(SubSeq(s, 1, p - 1))
        ELSE s

\* the three prefix replacements of cleanTitle, in the order of the code;
\* "<" and ">" stand for the brackets U+3010 and U+3011
StripLeadingTags(title) ==
  StripLeadingTag(
    StripLeadingTag(StripLeadingTag(title, "[", "]"), "<", ">"), "(", ")")

\* cleaned.replace(suffixPatterns[k], '')
StripSuffix(s, k) ==
  CASE k = 1 -> StripSeparatorSuffix(s, "-")
    [] k = 2 -> StripSeparatorSuffix(s, "|")
    [] k = 3 -> StripBracketSuffix(s, "(", ")")
    [] k = 4 -> StripBracketSuffix(s, "<", ">")
    [] k = 5 -> StripBracketSuffix(s, "[", "]")

\* the shortest result a suffix replacement may leave
MIN_TITLE_LENGTH == 5

\* the loop over suffixPatterns from pattern k on: a replacement is kept
\* only if it leaves MIN_TITLE_LENGTH characters
RECURSIVE StripSuffixes(_, _)
StripSuffixes(cleaned, k) ==
  IF k > 5 THEN cleaned
  ELSE LET testResult == Trim(StripSuffix(cleaned, k))
       IN  StripSuffixes(IF Len(testResult) >= MIN_TITLE_LENGTH
                           THEN testResult ELSE cleaned, k + 1)

\* cleanTitle of the nightly crawl and of the live search
cleanTitle(title) == Trim(StripSuffixes(Trim(StripLeadingTags(title)), 1))

\* cleanTitle of the backfill: the three prefix and the five suffix
\* replacements chained without a length test, then trim
cleanTitle_backfill(title) ==
  LET RECURSIVE ReplaceSuffixes(_, _)
      ReplaceSuffixes(s, k) ==
        IF k > 5 THEN s ELSE ReplaceSuffixes(StripSuffix(s, k), k + 1)
  IN  Trim(ReplaceSuffixes(StripLeadingTags(title), 1))

(* ------------------------------ entities -------------------------------- *)

\* the characters [0-9a-f] of the patterns of decodeHTMLEntities: a
\* hexadecimal digit stands at its value plus one
HexDigits ==
  <<"0", "1", "2", "3", "4", "5", "6", "7", "8", "9",
    "a", "b", "c", "d", "e", "f">>

\* a table that decodes "&lt;" to an ampersand
namedEntities_ltAmp(match) ==
  IF match = <<"&", "l", "t", ";">> THEN <<"&">> ELSE match

\* namedEntities[match] || match: the replacement of the match of
\* /&[a-z]+;/gi; a name that is not in the table stays as it is
namedEntities(match) ==
  CASE match = <<"&", "q", "u", "o", "t", ";">> -> <<"\"">>
    [] match = <<"&", "a", "p", "o", "s", ";">> -> <<"'">>
    [] match = <<"&", "a", "m", "p", ";">> -> <<"&">>
    [] match = <<"&", "l", "t", ";">> -> <<"<">>
    [] match = <<"&", "g", "t", ";">> -> <<">">>
    [] match = <<"&", "n", "b", "s", "p", ";">> -> <<" ">>
    [] OTHER -> match

\* String.fromCharCode for the codes of the characters that the texts below
\* can spell; every other code is a character that takes no part in an
\* entity
fromCharCode(code) ==
  CASE code = 38 -> "&"
    [] code = 39 -> "'"
    [] code = 59 -> ";"
    [] code = 60 -> "<"
    [] OTHER -> "?"

\* parseInt(digits, radix) for a sequence of digits of that radix
RECURSIVE parseInt(_, _)
parseInt(digits, radix) ==
  IF digits = <<>> THEN 0
  ELSE LET d == digits[Len(digits)]
           v == CHOOSE i \in 1..16 : HexDigits[i] = d
       IN  parseInt(SubSeq(digits, 1, Len(digits) - 1), radix) * radix
             + (v - 1)

\* text.replace(pattern, replacer) for the three patterns of
\* decodeHTMLEntities: kind "named" is /&[a-z]+;/gi, "dec" is /&#(\d+);/g
\* and "hex" is /&#x([0-9a-f]+);/gi. The scan goes from left to right and
\* goes on behind a match, so what a replacement leaves is not looked at
\* again.
RECURSIVE ReplaceEntities(_, _)
ReplaceEntities(s, kind) ==
  IF s = <<>> THEN s
  ELSE
    LET prefix == CASE kind = "named" -> <<"&">>
                    [] kind = "dec" -> <<"&", "#">>
                    [] kind = "hex" -> <<"&", "#", "x">>
        class == CASE kind = "named" ->
                        {"a", "b", "c", "d", "e", "f", "g", "h", "i", "j",
                         "k", "l", "m", "n", "o", "p", "q", "r", "s", "t",
                         "u", "v", "w", "x", "y", "z"}
                   [] kind = "dec" -> {HexDigits[i] : i \in 1..10}
                   [] kind = "hex" -> {HexDigits[i] : i \in 1..16}
        from == Len(prefix) + 1
        \* the first position from `from` on that holds no character of
        \* the class
        stop == First({i \in from..(Len(s) + 1) :
                         i = Len(s) + 1 \/ s[i] \notin class})
        matches == /\ Len(s) >= Len(prefix)
                   /\ SubSeq(s, 1, Len(prefix)) = prefix
                   /\ stop > from
                   /\ stop <= Len(s)
                   /\ s[stop] = ";"
        body == SubSeq(s, from, stop - 1)
        replacement ==
          CASE kind = "named" -> namedEntities(SubSeq(s, 1, stop))
            [] kind = "dec" -> <<fromCharCode(parseInt(body, 10))>>
            [] kind = "hex" -> <<fromCharCode(parseInt(body, 16))>>
    IN  IF matches
          THEN replacement
                 \o ReplaceEntities(SubSeq(s, stop + 1, Len(s)), kind)
          ELSE <<Head(s)>> \o ReplaceEntities(Tail(s), kind)

\* decodeHTMLEntities: the named entities, then the decimal and then the
\* hexadecimal references
decodeHTMLEntities(text) ==
  ReplaceEntities(ReplaceEntities(ReplaceEntities(text, "named"), "dec"),
                  "hex")

(* ------------------------------ summarizer ------------------------------- *)

\* A character of an LLM text: "w" is any other character, "R" stands for
\* an occurrence of one of the metaMessagePatterns
hasMetaMessage(summary) == \E i \in 1..Len(summary) : summary[i] = "R"

\* how a call ended: with a value or with an exception
Returned(value) == [pc |-> "returned", value |-> value]

Thrown == [pc |-> "threw", value |-> <<>>]

\* The reply of chat.completions.create to summarizeArticle: the request
\* throws ("error") or resolves with the content and the finish_reason of
\* the first choice; the content <<>> is the empty string and also a missing
\* choice, message or content, which are all falsy.
Completion(content, finish) ==
  [kind |-> "reply", content |-> content, finish |-> finish]

RequestError == [kind |-> "error", content |-> <<>>, finish |-> ""]

\* summarizeArticle(text), for the reply of the LLM
summarizeArticle(hasKey, response) ==
  IF ~ hasKey \/ response.kind = "error" THEN Thrown
  ELSE LET summary == response.content
       IN  IF response.finish = "length" /\ summary # <<>>
             THEN Returned(Trim(summary))
           ELSE IF summary = <<>> \/ Len(Trim(summary)) = 0 THEN Thrown
           ELSE IF hasMetaMessage(summary) THEN Thrown
           ELSE Returned(Trim(summary))

(* ------------------------------ live search ------------------------------ *)

\* A hit of the live search: title is its characters, link identifies it,
\* age is how many days before the request pubDate lies
Item(link, title, age) == [title |-> title, link |-> link, age |-> age]

\* daysBack of searchLiveNews
DAYS_BACK == 7

\* isWithinDays(item.pubDate, daysBack)
isWithinDays(item, days) == item.age <= days

\* the importance an article gets without the LLM
NEUTRAL_IMPORTANCE == 5

\* the length the catch block of analyzeAndRankArticles cuts the list to
FALLBACK_LIMIT == 20

\* An element of the JSON array the LLM replies with.  kind "null" is an
\* index that is null (or any other value that passes the range test and
\* is no position of the list); importance 0 is also a missing one and
\* summary "" also a missing one, which are all falsy.
ReplyItem(kind, index, importance, summary) ==
  [kind |-> kind, index |-> index, importance |-> importance,
   summary |-> summary]

\* { ...article, summary: article.description.substring(0, 150),
\*   importance: 5 }
BasicSummary(article) ==
  [title |-> article.title, link |-> article.link, age |-> article.age,
   summary |-> "d", importance |-> NEUTRAL_IMPORTANCE]

\* { ...articles[item.index], summary: item.summary || ..., importance:
\*   item.importance || 5 }: articles[null] is undefined and its spread
\* adds no field (link 0, no title)
Analyzed(articles, item) ==
  LET known == item.kind = "number"
  IN  [title |-> IF known THEN articles[item.index + 1].title ELSE <<>>,
       link |-> IF known THEN articles[item.index + 1].link ELSE 0,
       age |-> IF known THEN articles[item.index + 1].age ELSE 0,
       summary |-> IF item.summary # "" THEN item.summary ELSE "d",
       importance |-> IF item.importance # 0 THEN item.importance
                      ELSE NEUTRAL_IMPORTANCE]

\* results.sort((a, b) => b.importance - a.importance): a stable sort, by
\* inserting each element behind those that are not less important
RECURSIVE SortByImportance(_)
SortByImportance(results) ==
  LET RECURSIVE Insert(_, _)
      Insert(sorted, e) ==
        IF sorted = <<>> THEN <<e>>
        ELSE IF Head(sorted).importance >= e.importance
          THEN <<Head(sorted)>> \o Insert(Tail(sorted), e)
        ELSE <<e>> \o sorted
  IN  IF results = <<>> THEN <<>>
      ELSE Insert(SortByImportance(SubSeq(results, 1, Len(results) - 1)),
                  results[Len(results)])

\* analyzeAndRankArticles(articles), for the reply of the LLM: "error" when
\* the request throws, the content is empty, holds no JSON array or does
\* not parse, else the parsed array
analyzeAndRankArticles(articles, hasKey, reply) ==
  LET basic == [i \in 1..Len(articles) |-> BasicSummary(articles[i])]
      fallback == SubSeq(basic, 1, Min(FALLBACK_LIMIT, Len(basic)))
      InRange(item) ==
        \/ item.kind = "null"
        \/ item.index >= 0 /\ item.index < Len(articles)
      kept == SelectSeq(reply.items, InRange)
  IN  IF ~ hasKey THEN basic
      ELSE IF Len(articles) = 0 THEN <<>>
      ELSE IF reply.kind = "error" THEN fallback
      ELSE IF \E i \in 1..Len(kept) :
                kept[i].kind = "null" /\ kept[i].summary = ""
        THEN fallback
      ELSE SortByImportance(
             [i \in 1..Len(kept) |-> Analyzed(articles, kept[i])])

\* recentArticles.map(item => ({ title: cleanTitle(...), ... })) of
\* searchLiveNews, for titles that hold no markup and no entity
CleanedArticles(items) ==
  LET recent == SelectSeq(items, LAMBDA item : isWithinDays(item, DAYS_BACK))
  IN  [i \in 1..Len(recent) |->
         [recent[i] EXCEPT !.title = cleanTitle(recent[i].title)]]

\* searchLiveNews(query): an error of the search request (missing
\* credentials, HTTP status) is thrown on, else the caller gets what
\* analyzeAndRankArticles returns
searchLiveNews(items, searchOk, hasKey, reply) ==
  IF ~ searchOk THEN Thrown
  ELSE Returned(analyzeAndRankArticles(CleanedArticles(items), hasKey, reply))

\* the call of one of the functions above that a scenario makes: by is the
\* module of the function, input what the function was applied to
IdleCall ==
  [fn |-> "none", pc |-> "idle", arg |-> <<>>, searchOk |-> FALSE,
   hasKey |-> FALSE, reply |-> <<>>, by |-> "", input |-> <<>>,
   value |-> <<>>]

(* ----------------------------- progress hook ------------------------------ *)

\* readyState of a WebSocket that is not connected yet
CONNECTING == 0

\* the state of useCrawlProgress and of what it listens to: sockets is the
\* readyState of every WebSocket the hook has created, wsRef the number of
\* the one in wsRef.current (0: null), categoryProgress the Map (a missing
\* count is 0); server is how far each crawl has published, received counts
\* for the last published event the sockets that handed it to onmessage, and
\* missed tells that an event was published that no socket handed over
IdleHook ==
  [wsRef |-> 0, sockets |-> <<>>, categoryProgress |-> <<>>,
   isComplete |-> FALSE, last |-> "", received |-> 0, missed |-> FALSE,
   server |-> [r \in Runs |-> [pc |-> "idle", ci |-> 0, done |-> 0,
                               saved |-> 0]]]

\* connect(): nothing for an open socket in wsRef; else the state is
\* cleared if there is no socket or a closed one, and a new WebSocket is
\* created and put into wsRef
connect(h) ==
  LET ref == h.wsRef
      fresh == ref = 0 \/ h.sockets[ref] = CLOSED
      h1 == IF fresh
              THEN [h EXCEPT !.categoryProgress = <<>>, !.isComplete = FALSE]
              ELSE h
  IN  IF ref # 0 /\ h.sockets[ref] = OPEN THEN h
      ELSE [h1 EXCEPT !.sockets = Append(@, CONNECTING),
                      !.wsRef = Len(h.sockets) + 1]

\* disconnect(): wsRef.current.close(), wsRef.current = null
disconnect(h) ==
  IF h.wsRef = 0 THEN h
  ELSE [h EXCEPT !.sockets[h.wsRef] =
                    IF @ \in {CONNECTING, OPEN} THEN CLOSING ELSE @,
                 !.wsRef = 0]

\* ws.onmessage: the update of categoryProgress and isComplete (the events
\* that change only the message text leave both as they are)
onmessage(h, message) ==
  LET map == h.categoryProgress
      id == message.categoryId
      Entry(status, completed, total) ==
        [status |-> status, keywordsCompleted |-> completed,
         totalKeywords |-> total]
      Set(entry) == [k \in DOMAIN map \cup {id} |->
                       IF k = id THEN entry ELSE map[k]]
      newMap ==
        CASE message.type = "crawl_started" ->
               [k \in 1..message.count |-> Entry("pending", 0, 0)]
          [] message.type = "category_started" ->
               Set(Entry("processing", 0, message.count))
          [] message.type = "keyword_completed" /\ id \in DOMAIN map ->
               Set([map[id] EXCEPT !.keywordsCompleted =
                      IF message.success THEN @ + 1 ELSE @])
          [] message.type = "category_completed" /\ id \in DOMAIN map ->
               Set([map[id] EXCEPT
                      !.status = IF message.success THEN "completed"
                                 ELSE "error",
                      !.keywordsCompleted = message.count])
          [] message.type = "category_skipped" ->
               Set(Entry("skipped", 0, 0))
          [] message.type = "category_error" /\ id \in DOMAIN map ->
               Set([map[id] EXCEPT !.status = "error"])
          [] OTHER -> map
  IN  [h EXCEPT !.categoryProgress = newMap,
                !.isComplete = @ \/ message.type = "crawl_completed",
                !.last = message.type]

\* the next progress event of a crawl whose position is s, over categories
\* with the keyword counts cats, and the position after it: crawl_started,
\* then for every category category_started, the terminal events of its
\* keywords (success tells if the keyword was saved; keyword_error changes
\* the Map as little as a keyword_completed without success) and
\* category_completed, or category_skipped, and at last crawl_completed.
\* The count of an event is keywordCount of category_started, articlesCount
\* of category_completed and the number of categories of crawl_started.
NextEvent(s, cats, success) ==
  LET n == IF s.ci \in DOMAIN cats THEN cats[s.ci] ELSE 0
      Message(type, categoryId, count, ok) ==
        [type |-> type, categoryId |-> categoryId, count |-> count,
         success |-> ok]
  IN  CASE s.pc = "idle" ->
             <<Message("crawl_started", 0, Len(cats), FALSE),
               [s EXCEPT !.pc = "between"]>>
        [] s.pc = "between" /\ s.ci < Len(cats) ->
             <<Message("category_started", s.ci + 1, cats[s.ci + 1], FALSE),
               [s EXCEPT !.pc = "category", !.ci = @ + 1, !.done = 0,
                         !.saved = 0]>>
        [] s.pc = "between" /\ s.ci >= Len(cats) ->
             <<Message("crawl_completed", 0, 0, FALSE),
               [s EXCEPT !.pc = "done"]>>
        [] s.pc = "category" /\ n = 0 ->
             <<Message("category_skipped", s.ci, 0, FALSE),
               [s EXCEPT !.pc = "between"]>>
        [] s.pc = "category" /\ n > 0 /\ s.done < n ->
             <<Message("keyword_completed", s.ci, 0, success),
               [s EXCEPT !.done = @ + 1,
                         !.saved = IF success THEN @ + 1 ELSE @]>>
        [] s.pc = "category" /\ n > 0 /\ s.done >= n ->
             <<Message("category_completed", s.ci, s.saved, s.saved > 0),
               [s EXCEPT !.pc = "between"]>>

(* ------------------------------ scheduler -------------------------------- *)

\* the cron expression of the default settings, and one that cron.validate
\* rejects
DEFAULT_EXPRESSION == "0 9 * * *"

INVALID_EXPRESSION == "every day"

\* cron.validate
validate(cronExpression) == cronExpression = DEFAULT_EXPRESSION

\* a call of initializeScheduler or updateSchedulerSettings that waits for
\* a query: pc is "read" (getSchedulerSettings pending), "seen" (the row
\* has been read: seen), "write" (db.update pending) or "written"
Frame(fn, pc, updates) ==
  [fn |-> fn, pc |-> pc, updates |-> updates, seen |-> <<>>]

\* settings is the row of scheduler_settings, scheduledTask the number of
\* the task the module variable refers to (0: null), tasks the state of
\* every task cron.schedule has created, stacks the calls in flight of
\* every request, requests the requests made so far, boot the row at the
\* start
IdleSched ==
  [settings |-> [enabled |-> FALSE, cronExpression |-> DEFAULT_EXPRESSION],
   scheduledTask |-> 0, tasks |-> <<>>,
   stacks |-> [c \in 1..MaxRequests |-> <<>>], requests |-> <<>>,
   boot |-> [enabled |-> FALSE, cronExpression |-> DEFAULT_EXPRESSION]]

\* stopScheduler, and the same statements at the start of
\* initializeScheduler: the task the variable refers to is stopped
stopScheduler(s) ==
  IF s.scheduledTask # 0
    THEN [s EXCEPT !.tasks[s.scheduledTask] = "stopped", !.scheduledTask = 0]
    ELSE s

\* initializeScheduler in request c up to the await of getSchedulerSettings
initializeScheduler(s, c) ==
  [stopScheduler(s) EXCEPT
     !.stacks[c] = Append(@, Frame("initializeScheduler", "read", <<>>))]

\* updateSchedulerSettings that leaves the row as it is
updateSchedulerSettings_noWrite(s, c, updates) ==
  [s EXCEPT !.stacks[c] =
     Append(@, Frame("updateSchedulerSettings", "read", <<>>))]

\* updateSchedulerSettings(updates) in request c up to the await of
\* getSchedulerSettings
updateSchedulerSettings(s, c, updates) ==
  [s EXCEPT !.stacks[c] =
     Append(@, Frame("updateSchedulerSettings", "read", updates))]

\* the database executes the query the call on top of request c waits for:
\* the row is read, or the fields of updates are written to it
ExecuteQuery(s, c) ==
  LET d == Len(s.stacks[c])
      f == s.stacks[c][d]
  IN  IF f.pc = "read"
        THEN [s EXCEPT !.stacks[c][d].pc = "seen",
                       !.stacks[c][d].seen = <<s.settings>>]
        ELSE [s EXCEPT !.stacks[c][d].pc = "written",
                       !.settings =
                         [k \in DOMAIN s.settings |->
                            IF k \in DOMAIN f.updates THEN f.updates[k]
                            ELSE s.settings[k]]]

\* the call on top of request c goes on after its await; when it returns,
\* none of its callers does anything after its own await but return, so the
\* request is over
ResumeCall(s, c) ==
  LET ReturnAll(t, r) == [t EXCEPT !.stacks[r] = <<>>]
      d == Len(s.stacks[c])
      f == s.stacks[c][d]
      settings == f.seen[1]
  IN  IF f.fn = "initializeScheduler"
        THEN IF ~ settings.enabled THEN ReturnAll(s, c)
             ELSE IF ~ validate(settings.cronExpression)
               THEN updateSchedulerSettings(s, c, [enabled |-> FALSE])
             ELSE ReturnAll([s EXCEPT !.tasks = Append(@, "active"),
                                      !.scheduledTask = Len(s.tasks) + 1], c)
      ELSE IF f.pc = "seen"
        THEN [s EXCEPT !.stacks[c][d].pc = "write"]
        ELSE initializeScheduler(s, c)

(* ------------------------------ scenarios -------------------------------- *)

\* keyword counts of the categories, in displayOrder
BatchConfigs == { <<MaxKeywords>> }

SeqConfigs == { <<2, 0, 1>>, <<0, 1>>, <<>> }

MultiConfigs == { <<1>> }

Reply(kind, ints) == [kind |-> kind, ints |-> ints]

\* replies of the LLM to a ranking request
RankReplies ==
  { Reply("error", <<>>), Reply("nomatch", <<>>), Reply("list", <<1, 3>>),
    Reply("list", <<7>>) }

InProgress(rr) == rr.pc \notin {"idle", "done", "failed"}

\* the instant that follows the current one
NextInstants ==
  {t \in Instants : t > now /\ \A u \in Instants : u > now => t <= u}

\* the instants a second clock read can return after a first read of now
LaterReads == {now} \cup (IF quota.ticks > 0 THEN NextInstants ELSE {})

Init ==
  /\ now = 10
  /\ store = EmptyBag
  /\ overlapped = FALSE
  /\ sched = IdleSched
  /\ hook = IdleHook
  /\ runs = [r \in Runs |-> IdleRun]
  /\ bf = IdleBackfill
  /\ wss = IdleWss
  /\ call = IdleCall
  /\ \/ /\ config \in BatchConfigs
        /\ pool = BatchPool
        /\ quota = [runs |-> 1, ticks |-> 0]
     \/ /\ config \in SeqConfigs
        /\ pool = SmallPool
        /\ quota = [runs |-> 1, ticks |-> 0]
     \/ /\ config \in MultiConfigs
        /\ pool = MultiPool
        /\ quota = [runs |-> MaxRuns, ticks |-> MaxTicks]

(* ------------------------------- actions --------------------------------- *)

\* the run a new trigger starts: the first one not used yet
FreshRun(r) ==
  /\ quota.runs > 0
  /\ runs[r].pc = "idle"
  /\ \A q \in Runs : q < r => runs[q].pc # "idle"

ReadClock(t2) ==
  /\ now' = t2
  /\ quota' = [quota EXCEPT !.ticks = IF t2 = now THEN @ ELSE @ - 1]

\* POST /api/crawl up to its first await
TriggerPost(r, deleteExisting) ==
  /\ FreshRun(r)
  /\ IF deleteExisting
       THEN /\ runs' = [runs EXCEPT ![r] =
                 [@ EXCEPT !.pc = "routeDelete",
                           !.reqDate = UTCDateString(now)]]
            /\ quota' = [quota EXCEPT !.runs = @ - 1]
            /\ UNCHANGED now
       ELSE \E t2 \in LaterReads :
              /\ runs' = [runs EXCEPT ![r] =
                   BeginCrawl(@, now, t2)]
              /\ now' = t2
              /\ quota' = [runs |-> quota.runs - 1,
                           ticks |-> IF t2 = now THEN quota.ticks
                                     ELSE quota.ticks - 1]
  /\ overlapped' = (overlapped \/ \E q \in Runs : InProgress(runs[q]))
  /\ UNCHANGED <<config, pool, sched, hook, bf, wss, call, store>>

\* runScheduledCrawl up to the await of getSchedulerSettings
TriggerCron(r) ==
  /\ FreshRun(r)
  /\ runs' = [runs EXCEPT ![r].pc = "settings"]
  /\ quota' = [quota EXCEPT !.runs = @ - 1]
  /\ overlapped' = (overlapped \/ \E q \in Runs : InProgress(runs[q]))
  /\ UNCHANGED <<now, config, pool, sched, hook, bf, wss, call, store>>

\* runScheduledCrawl after getSchedulerSettings (ok = FALSE: it threw, the
\* catch of runScheduledCrawl logs it)
SettingsLoaded(r, ok, deleteExisting) ==
  /\ runs[r].pc = "settings"
  /\ IF ~ok
       THEN /\ runs' = [runs EXCEPT ![r].pc = "failed"]
            /\ UNCHANGED <<now, quota>>
       ELSE IF deleteExisting
         THEN /\ runs' = [runs EXCEPT ![r] =
                   [@ EXCEPT !.pc = "routeDelete",
                             !.reqDate = UTCDateString(now)]]
              /\ UNCHANGED <<now, quota>>
         ELSE \E t2 \in LaterReads :
                /\ runs' = [runs EXCEPT ![r] = BeginCrawl(@, now, t2)]
                /\ ReadClock(t2)
  /\ UNCHANGED <<config, pool, sched, hook, bf, wss, call, overlapped, store>>

\* the trigger's own deleteArticlesByDate(today) returns; crawlNews starts
RouteDeleteDone(r, ok) ==
  /\ runs[r].pc = "routeDelete"
  /\ IF ~ok
       THEN /\ runs' = [runs EXCEPT ![r].pc = "failed"]
            /\ UNCHANGED <<now, quota, store>>
       ELSE /\ store' = deleteArticlesByDate(store, runs[r].reqDate)
            /\ \E t2 \in LaterReads :
                 /\ runs' = [runs EXCEPT ![r] = BeginCrawl(@, now, t2)]
                 /\ ReadClock(t2)
  /\ UNCHANGED <<config, pool, sched, hook, bf, wss, call, overlapped>>

\* deleteArticlesByDate(todayKST) called without await: crawlNews goes on
\* at once and the delete takes effect at some later moment of the run
CrawlDeleteDone_unawaited(r, ok) ==
  /\ \/ /\ runs[r].pc = "deleting"
        /\ runs' = [runs EXCEPT ![r] =
             [@ EXCEPT !.pc = "loading", !.reqDate = runs[r].todayKST]]
        /\ UNCHANGED store
     \/ /\ runs[r].pc \in {"batch", "batchDelay", "categoryDelay", "notifying"}
        /\ runs[r].reqDate # -1
        /\ store' = deleteArticlesByDate(store, runs[r].reqDate)
        /\ runs' = [runs EXCEPT ![r].reqDate = -1]
  /\ UNCHANGED <<now, config, pool, sched, hook, bf, wss,
                 call, quota, overlapped>>

\* crawlNews: deleteArticlesByDate(todayKST) returns (or throws: crawlNews
\* rejects), getCategoriesWithKeywords is called
CrawlDeleteDone(r, ok) ==
  /\ runs[r].pc = "deleting"
  /\ IF ~ok
       THEN /\ runs' = [runs EXCEPT ![r].pc = "failed"]
            /\ UNCHANGED store
       ELSE /\ store' = deleteArticlesByDate(store, runs[r].todayKST)
            /\ runs' = [runs EXCEPT ![r].pc = "loading"]
  /\ UNCHANGED <<now, config, pool, sched, hook, bf, wss,
                 call, quota, overlapped>>

\* crawlNews: getCategoriesWithKeywords returns; crawl_started; the first
\* category starts
CategoriesLoaded(r, ok) ==
  /\ runs[r].pc = "loading"
  /\ runs' = [runs EXCEPT ![r] =
       IF ok THEN AfterLoad(@, config) ELSE [@ EXCEPT !.pc = "failed"]]
  /\ UNCHANGED <<now, config, pool, sched, hook, bf, wss,
                 call, quota, overlapped, store>>

\* fetchArticlesForKeyword returns: articles is the filtered, cleaned list
\* (the empty list when the request failed or credentials are missing)
FetchReturn(r, k, articles, hasKey) ==
  /\ runs[r].pc = "batch"
  /\ k \in DOMAIN runs[r].tasks
  /\ runs[r].tasks[k].pc = "fetching"
  /\ runs' = [runs EXCEPT ![r] =
       AfterKeyword([@ EXCEPT !.tasks[k] = AfterFetch(@, articles, hasKey)])]
  /\ UNCHANGED <<now, config, pool, sched, hook, bf, wss,
                 call, quota, overlapped, store>>

\* fetchArticlesForKeyword finds no search credentials: the error it throws
\* is caught in the function itself, which returns the empty list
FetchCredentialsMissing(r, k, hasKey) ==
  /\ runs[r].pc = "batch"
  /\ k \in DOMAIN runs[r].tasks
  /\ runs[r].tasks[k].pc = "fetching"
  /\ runs' = [runs EXCEPT ![r] =
       AfterKeyword([@ EXCEPT !.tasks[k] =
         [AfterFetch(@, <<>>, hasKey) EXCEPT !.searchError = "credentials"]])]
  /\ UNCHANGED <<now, config, pool, sched, hook, bf, wss,
                 call, quota, overlapped, store>>

\* the ranking request of selectTopImportantArticles returns
RankReturn(r, k, reply) ==
  /\ runs[r].pc = "batch"
  /\ k \in DOMAIN runs[r].tasks
  /\ runs[r].tasks[k].pc = "ranking"
  /\ LET t == runs[r].tasks[k]
         topN == Min(3, Len(t.cands))
     IN  runs' = [runs EXCEPT ![r] =
           AfterKeyword([@ EXCEPT !.tasks[k] =
             AfterRanking(
               [t EXCEPT !.rank = RankOutcome(t.cands, topN, reply)],
               t.cands, RankReplyIndices(t.cands, topN, reply), TRUE)])]
  /\ UNCHANGED <<now, config, pool, sched, hook, bf, wss,
                 call, quota, overlapped, store>>

\* summarizeArticle awaited without its own try block: its exception is
\* caught by the outer catch of processKeyword and the keyword ends
SummaryReturn_dropOnFailure(r, k, ok) ==
  /\ runs[r].pc = "batch"
  /\ k \in DOMAIN runs[r].tasks
  /\ runs[r].tasks[k].pc = "summarizing"
  /\ runs' = [runs EXCEPT ![r] =
       IF ok
         THEN [@ EXCEPT !.tasks[k] = [@ EXCEPT !.pc = "saving",
                                                !.summary = "s"]]
         ELSE AfterKeyword([@ EXCEPT !.tasks[k] = CatchKeyword(@)])]
  /\ UNCHANGED <<now, config, pool, sched, hook, bf, wss,
                 call, quota, overlapped, store>>

\* summarizeArticle returns (ok) or throws: the insert is issued
SummaryReturn(r, k, ok) ==
  /\ runs[r].pc = "batch"
  /\ k \in DOMAIN runs[r].tasks
  /\ runs[r].tasks[k].pc = "summarizing"
  /\ runs' = [runs EXCEPT ![r].tasks[k] =
       [@ EXCEPT !.pc = "saving", !.summary = IF ok THEN "s" ELSE ""]]
  /\ UNCHANGED <<now, config, pool, sched, hook, bf, wss,
                 call, quota, overlapped, store>>

\* storage.createArticleWithDate returns the new row (ok) or throws
StoreReturn(r, k, ok) ==
  /\ runs[r].pc = "batch"
  /\ k \in DOMAIN runs[r].tasks
  /\ runs[r].tasks[k].pc = "saving"
  /\ LET t == runs[r].tasks[k]
         article == Article(r, runs[r].ci, k, runs[r].crawledDate,
                            t.sel[1], t.summary)
     IN  IF ok
           THEN /\ store' = createArticleWithDate(store, article)
                /\ runs' = [runs EXCEPT ![r] =
                     AfterKeyword([@ EXCEPT
                       !.inserts = @ + 1,
                       !.tasks[k] = EndSaved([t EXCEPT !.inserted = @ + 1],
                                             article)])]
           ELSE /\ store' = store
                /\ runs' = [runs EXCEPT ![r] =
                     AfterKeyword([@ EXCEPT !.tasks[k] = CatchKeyword(t)])]
  /\ UNCHANGED <<now, config, pool, sched, hook, bf, wss,
                 call, quota, overlapped>>

\* the 500 ms timer between two batches fires: the next batch starts
BatchDelayDone(r) ==
  /\ runs[r].pc = "batchDelay"
  /\ runs' = [runs EXCEPT ![r] = StartBatch(@, @.lo + BATCH_SIZE)]
  /\ UNCHANGED <<now, config, pool, sched, hook, bf, wss,
                 call, quota, overlapped, store>>

\* the 1000 ms timer between two categories fires: the next category starts
CategoryDelayDone(r) ==
  /\ runs[r].pc = "categoryDelay"
  /\ runs' = [runs EXCEPT ![r] = EnterCategory(@, @.ci + 1)]
  /\ UNCHANGED <<now, config, pool, sched, hook, bf, wss,
                 call, quota, overlapped, store>>

\* sendNotification called outside a try block: its exception rejects
\* crawlNews before crawl_completed is published
NotifyReturn_rethrown(r, ok) ==
  /\ runs[r].pc = "notifying"
  /\ runs' = [runs EXCEPT ![r] =
       IF ok
         THEN [@ EXCEPT !.pc = "done",
                        !.log = Append(@, RunEv("crawl_completed", 0,
                                         Len(runs[r].newArticles), 0, TRUE,
                                         TRUE))]
         ELSE [@ EXCEPT !.pc = "failed", !.notifyThrew = TRUE]]
  /\ UNCHANGED <<now, config, pool, sched, hook, bf, wss,
                 call, quota, overlapped, store>>

\* sendNotification returns or throws (caught and logged): crawl_completed
NotifyReturn(r, ok) ==
  /\ runs[r].pc = "notifying"
  /\ runs' = [runs EXCEPT ![r] =
       [@ EXCEPT !.pc = "done", !.notifyThrew = ~ok,
                 !.log = Append(@, RunEv("crawl_completed", 0,
                                  Len(runs[r].newArticles), 0, TRUE,
                                  TRUE))]]
  /\ UNCHANGED <<now, config, pool, sched, hook, bf, wss,
                 call, quota, overlapped, store>>

\* the wall clock advances
Tick ==
  /\ quota.ticks > 0
  /\ now' \in NextInstants
  /\ quota' = [quota EXCEPT !.ticks = @ - 1]
  /\ UNCHANGED <<config, pool, sched, hook, bf, wss, call,
                 overlapped, store, runs>>

\* a request or a cron tick starts a handler
Trigger(r) ==
  \/ \E d \in BOOLEAN : TriggerPost(r, d)
  \/ TriggerCron(r)

\* an awaited call of run r returns
RunStep(r) ==
  \/ \E ok \in BOOLEAN, d \in BOOLEAN : SettingsLoaded(r, ok, d)
  \/ \E ok \in BOOLEAN : RouteDeleteDone(r, ok)
  \/ \E ok \in BOOLEAN : CrawlDeleteDone(r, ok)
  \/ \E ok \in BOOLEAN : CategoriesLoaded(r, ok)
  \/ \E k \in 1..(MaxKeywords + 1), articles \in pool, hasKey \in BOOLEAN :
       FetchReturn(r, k, articles, hasKey)
  \/ \E k \in 1..(MaxKeywords + 1), reply \in RankReplies :
       RankReturn(r, k, reply)
  \/ \E k \in 1..(MaxKeywords + 1), ok \in BOOLEAN : SummaryReturn(r, k, ok)
  \/ \E k \in 1..(MaxKeywords + 1), ok \in BOOLEAN : StoreReturn(r, k, ok)
  \/ BatchDelayDone(r)
  \/ CategoryDelayDone(r)
  \/ \E ok \in BOOLEAN : NotifyReturn(r, ok)

Next == Tick \/ \E r \in Runs : (Trigger(r) \/ RunStep(r))

Spec == Init /\ [][Next]_vars

\* One trigger; every awaited call eventually returns or fails.
LiveInit ==
  /\ now = 10
  /\ store = EmptyBag
  /\ overlapped = FALSE
  /\ sched = IdleSched
  /\ hook = IdleHook
  /\ runs = [r \in Runs |-> IdleRun]
  /\ bf = IdleBackfill
  /\ wss = IdleWss
  /\ call = IdleCall
  /\ \/ /\ config \in BatchConfigs
        /\ pool = { <<>> }
        /\ quota = [runs |-> 1, ticks |-> 0]
     \/ /\ config \in SeqConfigs \cup MultiConfigs
        /\ pool = IF Len(config) > 2 THEN BatchPool ELSE SmallPool
        /\ quota = [runs |-> 1, ticks |-> MaxTicks]

LiveSpec ==
  LiveInit /\ [][Next]_vars /\ \A r \in Runs : WF_vars(RunStep(r))

(* -------------------------- selector scenarios --------------------------- *)

\* the search hits the lists of the selector scenarios are made of: plain and
\* promotional ones, with a longer, a shorter and an empty description, and
\* one whose cleaned title is empty
CandKinds ==
  { TextCand(FALSE, 1, 1, {1, 2}), TextCand(FALSE, 1, 2, {2, 3}),
    TextCand(FALSE, 1, 0, {1}), TextCand(FALSE, 0, 3, {2}),
    TextCand(TRUE, 1, 1, {1, 2, 3}), TextCand(TRUE, 1, 2, {3}) }

SelPool ==
  UNION { [1..n -> CandKinds] : n \in 0..MaxCands }

\* replies of the LLM to a ranking request in the selector scenarios
SelRankReplies ==
  RankReplies \cup { Reply("list", <<2, 0>>), Reply("list", <<3, 3, 1, 0>>) }

\* the day a backfill keyword is processed for
BackfillDate == UTCDateString(now) - 1

\* fetchArticlesForKeywordAndDate returns
BackfillFetchReturn(articles, hasKey) ==
  /\ bf.pc = "fetching"
  /\ bf' = BackfillAfterFetch(bf, articles, hasKey)
  /\ UNCHANGED <<now, config, pool, sched, hook, wss, call,
                 quota, overlapped, store, runs>>

\* summarizeArticle returns (ok) or throws: the insert is issued
BackfillSummaryReturn(ok) ==
  /\ bf.pc = "summarizing"
  /\ bf' = [bf EXCEPT !.pc = "saving", !.summary = IF ok THEN "s" ELSE ""]
  /\ UNCHANGED <<now, config, pool, sched, hook, wss, call,
                 quota, overlapped, store, runs>>

\* storage.createArticleWithDate returns the new row (ok) or throws: the
\* row carries no keyword
BackfillStoreReturn(ok) ==
  /\ bf.pc = "saving"
  /\ LET article == Article(0, 1, 0, BackfillDate, bf.sel[1], bf.summary)
     IN  IF ok
           THEN /\ store' = createArticleWithDate(store, article)
                /\ bf' = [bf EXCEPT !.pc = "done", !.inserted = @ + 1,
                                    !.value = <<article>>]
           ELSE /\ store' = store
                /\ bf' = BackfillAbsent(bf)
  /\ UNCHANGED <<now, config, pool, sched, hook, wss, call,
                 quota, overlapped, runs>>

\* backfillNewsForDate is run once more for the same date, after its first
\* run is over: the keyword is processed again, up to the await of its
\* search request, and nothing is deleted
BackfillAgain ==
  /\ bf.pc = "done"
  /\ bf.pass = 1
  /\ bf' = [IdleBackfill EXCEPT !.pc = "fetching", !.pass = 2,
                                !.first = store]
  /\ UNCHANGED <<now, config, pool, sched, hook, wss, call,
                 quota, overlapped, store, runs>>

\* One keyword with one list of search hits, processed either by the nightly
\* crawl (run 1, in its only category) or by the backfill.
SelectorInit ==
  /\ now = 10
  /\ store = EmptyBag
  /\ overlapped = FALSE
  /\ sched = IdleSched
  /\ hook = IdleHook
  /\ config = <<1>>
  /\ quota = [runs |-> 0, ticks |-> 0]
  /\ pool \in { {articles} : articles \in SelPool }
  /\ wss = IdleWss
  /\ call = IdleCall
  /\ \/ /\ runs = [r \in Runs |->
                    IF r = 1
                      THEN AfterLoad(BeginCrawl(IdleRun, now, now), config)
                      ELSE IdleRun]
        /\ bf = IdleBackfill
     \/ /\ runs = [r \in Runs |-> IdleRun]
        /\ bf = [IdleBackfill EXCEPT !.pc = "fetching"]

SelectorNext ==
  \/ \E articles \in pool, hasKey \in BOOLEAN :
       FetchReturn(1, 1, articles, hasKey)
  \/ \E hasKey \in BOOLEAN : FetchCredentialsMissing(1, 1, hasKey)
  \/ \E reply \in SelRankReplies : RankReturn(1, 1, reply)
  \/ \E ok \in BOOLEAN : SummaryReturn(1, 1, ok)
  \/ \E ok \in BOOLEAN : StoreReturn(1, 1, ok)
  \/ \E ok \in BOOLEAN : NotifyReturn(1, ok)
  \/ \E articles \in pool, hasKey \in BOOLEAN :
       BackfillFetchReturn(articles, hasKey)
  \/ \E ok \in BOOLEAN : BackfillSummaryReturn(ok)
  \/ \E ok \in BOOLEAN : BackfillStoreReturn(ok)
  \/ BackfillAgain

SelectorSpec == SelectorInit /\ [][SelectorNext]_vars

(* ------------------------- broadcaster scenarios ------------------------- *)

\* no crawl and no backfill is under way
NoCrawl ==
  /\ now = 10
  /\ store = EmptyBag
  /\ overlapped = FALSE
  /\ config = <<>>
  /\ pool = {}
  /\ quota = [runs |-> 0, ticks |-> 0]
  /\ runs = [r \in Runs |-> IdleRun]
  /\ bf = IdleBackfill

\* an observer connects: the server adds it, open, to wss.clients
Connect ==
  /\ wss.handle
  /\ Len(wss.clients) < MaxClients
  /\ wss' = [wss EXCEPT !.clients = Append(@, Client(OPEN))]
  /\ UNCHANGED <<now, config, pool, sched, hook, bf, call,
                 quota, overlapped, store, runs>>

\* observer i starts the closing handshake
BeginClose(i) ==
  /\ i \in DOMAIN wss.clients
  /\ wss.clients[i].readyState = OPEN
  /\ wss' = [wss EXCEPT !.clients[i].readyState = CLOSING]
  /\ UNCHANGED <<now, config, pool, sched, hook, bf, call,
                 quota, overlapped, store, runs>>

\* the connection of observer i is gone
EndClose(i) ==
  /\ i \in DOMAIN wss.clients
  /\ wss.clients[i].readyState \in {OPEN, CLOSING}
  /\ wss' = [wss EXCEPT !.clients[i].readyState = CLOSED]
  /\ UNCHANGED <<now, config, pool, sched, hook, bf, call,
                 quota, overlapped, store, runs>>

\* a pipeline step calls broadcastProgress with its next event; a step that
\* an exception left publishes nothing more
Publish(sends) ==
  /\ wss.outcome # "threw"
  /\ wss.published < MaxEvents
  /\ LET message == wss.published + 1
         due == [i \in DOMAIN wss.clients |->
                   IF wss.clients[i].readyState = OPEN
                     THEN [wss.clients[i] EXCEPT !.due = @ \cup {message}]
                     ELSE wss.clients[i]]
     IN  wss' = broadcastProgress(
                  [wss EXCEPT !.published = message, !.clients = due],
                  message, sends)
  /\ UNCHANGED <<now, config, pool, sched, hook, bf, call,
                 quota, overlapped, store, runs>>

\* what client.send does when it is called: the data is sent, the call
\* throws, or the failure is reported later through the error event
SendOutcomes == {"sent", "throws", "fails"}

\* The broadcaster alone, with the handle set or not.
BroadcastInit ==
  /\ NoCrawl
  /\ call = IdleCall
  /\ sched = IdleSched
  /\ hook = IdleHook
  /\ wss \in {IdleWss, [IdleWss EXCEPT !.handle = TRUE]}

BroadcastNext ==
  \/ Connect
  \/ \E i \in 1..MaxClients : BeginClose(i)
  \/ \E i \in 1..MaxClients : EndClose(i)
  \/ \E sends \in [DOMAIN wss.clients -> SendOutcomes] : Publish(sends)

BroadcastSpec == BroadcastInit /\ [][BroadcastNext]_vars

(* ---------------------------- call scenarios ----------------------------- *)

\* the replies of the LLM to a summary request: the request fails, or a
\* text of up to MaxText characters comes back, complete or truncated
SummaryReplies ==
  LET texts == UNION { [1..n -> {"w", " ", "R"}] : n \in 0..MaxText }
  IN  {RequestError}
        \cup { Completion(c, f) : c \in texts, f \in {"stop", "length"} }

\* the headlines: an optional leading tag, a body and up to two trailing
\* source attributions (or a lone separator)
Titles ==
  LET tags == { <<>>, <<"[", "a", "]", " ">>, <<"(", "a", ")">>,
                <<"<", "a", ">", " ">> }
      bodies == { [i \in 1..n |-> "a"] : n \in 0..MaxBody }
      suffixes ==
        { <<>>, <<" ", "-", " ", "a">>, <<"-", "a">>, <<" ", "|", " ", "a">>,
          <<" ", "(", "a", ")">>, <<" ", "<", "a", ">">>,
          <<" ", "[", "a", "]">>, <<"-">> }
  IN  { tag \o body \o s1 \o s2 :
          tag \in tags, body \in bodies, s1 \in suffixes, s2 \in suffixes }

\* the lists of hits of the search request: up to MaxItems recent and old
\* hits whose headlines are one headline as two sources give it and another
\* one, and a list of recent hits that is longer than FALLBACK_LIMIT
ItemLists ==
  LET titles == { <<"a", "b", "c", "d", "e", " ", "-", " ", "x">>,
                  <<"a", "b", "c", "d", "e">>, <<"e", "d", "c", "b", "a">> }
  IN  UNION { { [i \in 1..n |-> Item(i, f[i][1], f[i][2])] :
                  f \in [1..n -> titles \X {0, DAYS_BACK + 1}] } :
              n \in 0..MaxItems }
        \cup { [i \in 1..(FALLBACK_LIMIT + 1) |->
                  Item(i, <<"a", "b", "c", "d", "e">>, 0)] }

\* replies of the LLM to the request of analyzeAndRankArticles
ListReply(items) == [kind |-> "list", items |-> items]

ErrorReply == [kind |-> "error", items |-> <<>>]

\* the JSON arrays of up to MaxReply elements, with indices in and out of
\* range and null, importances in and out of 1..10 and missing, summaries
\* present and missing; and an array longer than FALLBACK_LIMIT
AnalysisReplies ==
  LET items == { ReplyItem("number", i, m, s) :
                   i \in {-1, 0, 1}, m \in {0, 3, 11}, s \in {"", "s"} }
                 \cup { ReplyItem("null", 0, 8, s) : s \in {"", "s"} }
  IN  { ListReply(l) : l \in UNION { [1..n -> items] : n \in 0..MaxReply } }
        \cup { ListReply([i \in 1..(FALLBACK_LIMIT + 1) |->
                            ReplyItem("number", 0, 3, "s")]) }

\* the texts to decode: up to MaxTokens entity tokens and fragments of
\* them, one after the other
EntityTexts ==
  LET tokens == { <<"&">>, <<"a", "m", "p", ";">>, <<"l", "t", ";">>,
                  <<"#", "3", "9", ";">>, <<"#", "x", "2", "7", ";">>,
                  <<"b">> }
      RECURSIVE Concat(_)
      Concat(parts) ==
        IF parts = <<>> THEN <<>> ELSE Head(parts) \o Concat(Tail(parts))
  IN  { Concat(parts) :
          parts \in UNION { [1..n -> tokens] : n \in 0..MaxTokens } }

\* the calls of the scenarios: every summary reply with and without the
\* key, every headline, every list of hits with a few replies, two
\* lists of hits with every reply, and every text to decode
Calls ==
  LET few == { ErrorReply, ListReply(<<>>),
               ListReply(<<ReplyItem("number", 1, 3, "s"),
                           ReplyItem("number", 0, 8, "")>>) }
      two == { l \in ItemLists :
                 /\ Len(l) \in {2, FALLBACK_LIMIT + 1}
                 /\ \A i \in DOMAIN l : l[i].age = 0
                 /\ Len(l) = 2 => l[1].title # cleanTitle(l[2].title)
                 /\ Len(l) = 2 => l[1].title = cleanTitle(l[1].title) }
  IN  { [IdleCall EXCEPT !.fn = "summarizeArticle", !.pc = "called",
                         !.hasKey = hasKey, !.reply = response] :
          hasKey \in BOOLEAN, response \in SummaryReplies }
        \cup { [IdleCall EXCEPT !.fn = "cleanTitle", !.pc = "called",
                                !.arg = title] : title \in Titles }
        \cup { [IdleCall EXCEPT !.fn = "searchLiveNews", !.pc = "called",
                                !.arg = items, !.searchOk = searchOk,
                                !.hasKey = hasKey, !.reply = reply] :
                 items \in ItemLists, searchOk \in BOOLEAN,
                 hasKey \in BOOLEAN, reply \in few }
        \cup { [IdleCall EXCEPT !.fn = "searchLiveNews", !.pc = "called",
                                !.arg = items, !.searchOk = TRUE,
                                !.hasKey = TRUE, !.reply = reply] :
                 items \in two, reply \in AnalysisReplies }
        \cup { [IdleCall EXCEPT !.fn = "decodeHTMLEntities",
                                !.pc = "called", !.arg = text] :
                 text \in EntityTexts }

\* summarizeArticle returns or throws
SummarizeReturn ==
  /\ call.fn = "summarizeArticle"
  /\ call.pc = "called"
  /\ LET res == summarizeArticle(call.hasKey, call.reply)
     IN  call' = [call EXCEPT !.pc = res.pc, !.value = res.value,
                              !.by = "openai"]
  /\ UNCHANGED <<now, config, pool, sched, hook, bf, wss,
                 quota, overlapped, store, runs>>

\* cleanTitle of the nightly crawl and the live search returns
CleanTitleReturn ==
  /\ call.fn = "cleanTitle"
  /\ call.pc = "called"
  /\ call' = [call EXCEPT !.pc = "returned", !.by = "schema",
                          !.input = StripLeadingTags(call.arg),
                          !.value = cleanTitle(call.arg)]
  /\ UNCHANGED <<now, config, pool, sched, hook, bf, wss,
                 quota, overlapped, store, runs>>

\* cleanTitle of the backfill returns
BackfillCleanTitleReturn ==
  /\ call.fn = "cleanTitle"
  /\ call.pc = "called"
  /\ call' = [call EXCEPT !.pc = "returned", !.by = "notifier",
                          !.input = StripLeadingTags(call.arg),
                          !.value = cleanTitle_backfill(call.arg)]
  /\ UNCHANGED <<now, config, pool, sched, hook, bf, wss,
                 quota, overlapped, store, runs>>

\* searchLiveNews returns or throws; input is the list it handed to
\* analyzeAndRankArticles
SearchLiveReturn ==
  /\ call.fn = "searchLiveNews"
  /\ call.pc = "called"
  /\ LET res == searchLiveNews(call.arg, call.searchOk, call.hasKey,
                               call.reply)
     IN  call' = [call EXCEPT !.pc = res.pc, !.value = res.value,
                              !.by = "schema",
                              !.input = IF call.searchOk
                                          THEN CleanedArticles(call.arg)
                                          ELSE <<>>]
  /\ UNCHANGED <<now, config, pool, sched, hook, bf, wss,
                 quota, overlapped, store, runs>>

\* decodeHTMLEntities returns; input is what decoding its result once more
\* gives
DecodeReturn ==
  /\ call.fn = "decodeHTMLEntities"
  /\ call.pc = "called"
  /\ LET decoded == decodeHTMLEntities(call.arg)
     IN  call' = [call EXCEPT !.pc = "returned", !.by = "schema",
                              !.value = decoded,
                              !.input = decodeHTMLEntities(decoded)]
  /\ UNCHANGED <<now, config, pool, sched, hook, bf, wss,
                 quota, overlapped, store, runs>>

\* One call of one of the functions, with its input and the replies of the
\* services it asks.
CallInit ==
  /\ NoCrawl
  /\ wss = IdleWss
  /\ sched = IdleSched
  /\ hook = IdleHook
  /\ call \in Calls

CallNext ==
  \/ SummarizeReturn
  \/ CleanTitleReturn
  \/ BackfillCleanTitleReturn
  \/ SearchLiveReturn
  \/ DecodeReturn

CallSpec == CallInit /\ [][CallNext]_vars

(* -------------------------- scheduler scenarios -------------------------- *)

\* the server starts, or anything else calls initializeScheduler
RequestInitialize ==
  /\ Len(sched.requests) < MaxRequests
  /\ sched' = initializeScheduler(
                [sched EXCEPT !.requests = Append(@, "initializeScheduler")],
                Len(sched.requests) + 1)
  /\ UNCHANGED <<now, config, pool, hook, bf, wss, call, quota, overlapped,
                 store, runs>>

\* PUT /api/scheduler, whose cron expression has passed cron.validate,
\* calls updateSchedulerSettings
RequestUpdate(updates) ==
  /\ Len(sched.requests) < MaxRequests
  /\ sched' = updateSchedulerSettings(
                [sched EXCEPT
                   !.requests = Append(@, "updateSchedulerSettings")],
                Len(sched.requests) + 1, updates)
  /\ UNCHANGED <<now, config, pool, hook, bf, wss, call, quota, overlapped,
                 store, runs>>

\* stopScheduler is called
RequestStop ==
  /\ Len(sched.requests) < MaxRequests
  /\ sched' = stopScheduler(
                [sched EXCEPT !.requests = Append(@, "stopScheduler")])
  /\ UNCHANGED <<now, config, pool, hook, bf, wss, call, quota, overlapped,
                 store, runs>>

\* the database executes the pending query of request c
QueryExecuted(c) ==
  /\ sched.stacks[c] # <<>>
  /\ sched.stacks[c][Len(sched.stacks[c])].pc \in {"read", "write"}
  /\ sched' = ExecuteQuery(sched, c)
  /\ UNCHANGED <<now, config, pool, hook, bf, wss, call, quota, overlapped,
                 store, runs>>

\* the await of request c resolves and its call goes on, to the next await
\* or to the end of the request; calls nest MaxDepth deep at most
CallResumed(c) ==
  /\ sched.stacks[c] # <<>>
  /\ sched.stacks[c][Len(sched.stacks[c])].pc \in {"seen", "written"}
  /\ Len(ResumeCall(sched, c).stacks[c]) <= MaxDepth
  /\ sched' = ResumeCall(sched, c)
  /\ UNCHANGED <<now, config, pool, hook, bf, wss, call, quota, overlapped,
                 store, runs>>

\* The scheduler alone: a stored row, enabled or not and with a valid or an
\* invalid cron expression, and up to MaxRequests requests in any
\* interleaving.
SchedInit ==
  /\ NoCrawl
  /\ wss = IdleWss
  /\ call = IdleCall
  /\ hook = IdleHook
  /\ \E enabled \in BOOLEAN :
       \E expression \in {DEFAULT_EXPRESSION, INVALID_EXPRESSION} :
         LET row == [enabled |-> enabled, cronExpression |-> expression]
         IN  sched = [IdleSched EXCEPT !.settings = row, !.boot = row]

SchedNext ==
  \/ RequestInitialize
  \/ \E updates \in { [enabled |-> TRUE], [enabled |-> FALSE],
                      [cronExpression |-> DEFAULT_EXPRESSION] } :
       RequestUpdate(updates)
  \/ RequestStop
  \/ \E c \in 1..MaxRequests : QueryExecuted(c)
  \/ \E c \in 1..MaxRequests : CallResumed(c)

SchedSpec == SchedInit /\ [][SchedNext]_vars

\* The requests one after the other: a request is made when no call is in
\* flight; every query is executed and every await resolves.
BootNext ==
  \/ /\ \A c \in 1..MaxRequests : sched.stacks[c] = <<>>
     /\ \/ RequestInitialize
        \/ \E updates \in { [enabled |-> TRUE], [enabled |-> FALSE],
                            [cronExpression |-> DEFAULT_EXPRESSION] } :
             RequestUpdate(updates)
        \/ RequestStop
  \/ \E c \in 1..MaxRequests : QueryExecuted(c)
  \/ \E c \in 1..MaxRequests : CallResumed(c)

BootSpec ==
  /\ SchedInit
  /\ [][BootNext]_vars
  /\ \A c \in 1..MaxRequests :
       WF_vars(QueryExecuted(c)) /\ WF_vars(CallResumed(c))

(* ------------------------ progress hook scenarios ------------------------ *)

\* the dialog is opened (its effect calls connect), at most MaxSockets times
\* with no open socket in wsRef
HookConnect ==
  /\ Len(connect(hook).sockets) <= MaxSockets
  /\ hook' = connect(hook)
  /\ UNCHANGED <<now, config, pool, sched, bf, wss, call, quota, overlapped,
                 store, runs>>

\* the crawl is complete or the component unmounts: disconnect()
HookDisconnect ==
  /\ hook' = disconnect(hook)
  /\ UNCHANGED <<now, config, pool, sched, bf, wss, call, quota, overlapped,
                 store, runs>>

\* the connection of socket i is established
SocketOpened(i) ==
  /\ i \in DOMAIN hook.sockets
  /\ hook.sockets[i] = CONNECTING
  /\ hook' = [hook EXCEPT !.sockets[i] = OPEN]
  /\ UNCHANGED <<now, config, pool, sched, bf, wss, call, quota, overlapped,
                 store, runs>>

\* socket i is closed: the closing handshake is over, or the connection
\* failed or was lost
SocketClosed(i) ==
  /\ i \in DOMAIN hook.sockets
  /\ hook.sockets[i] # CLOSED
  /\ hook' = [hook EXCEPT !.sockets[i] = CLOSED]
  /\ UNCHANGED <<now, config, pool, sched, bf, wss, call, quota, overlapped,
                 store, runs>>

\* crawl r publishes its next event; every open socket of the hook hands it
\* to onmessage
ServerPublish(r, success) ==
  /\ hook.server[r].pc # "done"
  /\ LET next == NextEvent(hook.server[r], config, success)
         open == {i \in DOMAIN hook.sockets : hook.sockets[i] = OPEN}
         RECURSIVE Deliver(_, _)
         Deliver(h, n) == IF n = 0 THEN h
                          ELSE Deliver(onmessage(h, next[1]), n - 1)
     IN  hook' = [Deliver(hook, Cardinality(open)) EXCEPT
                    !.server[r] = next[2],
                    !.received = Cardinality(open),
                    !.missed = @ \/ open = {}]
  /\ UNCHANGED <<now, config, pool, sched, bf, wss, call, quota, overlapped,
                 store, runs>>

\* One progress hook and the crawls POST /api/crawl starts, over one
\* category with keywords and an empty one.
HookInit ==
  /\ now = 10
  /\ store = EmptyBag
  /\ overlapped = FALSE
  /\ config \in { <<1, 0>>, <<2>> }
  /\ pool = {}
  /\ quota = [runs |-> 0, ticks |-> 0]
  /\ runs = [r \in Runs |-> IdleRun]
  /\ bf = IdleBackfill
  /\ wss = IdleWss
  /\ call = IdleCall
  /\ sched = IdleSched
  /\ hook = IdleHook

HookNext ==
  \/ HookConnect
  \/ HookDisconnect
  \/ \E i \in 1..MaxSockets : SocketOpened(i)
  \/ \E i \in 1..MaxSockets : SocketClosed(i)
  \/ \E r \in Runs, success \in BOOLEAN : ServerPublish(r, success)

HookSpec == HookInit /\ [][HookNext]_vars

(* ------------------------------ properties ------------------------------- *)

Terminal(e) == e.type \in {"keyword_completed", "keyword_error"}

TerminalCount(ev) == Cardinality({i \in 1..Len(ev) : Terminal(ev[i])})

LastEv(ev) == ev[Len(ev)]

AllTasks == {<<r, k>> \in Runs \X (1..(MaxKeywords + 1)) :
               k \in DOMAIN runs[r].tasks}

Ended(t) == t.pc = "done"

\* no other trigger has fired: nothing but run r touches the store
OnlyRun(r) == \A q \in Runs : q # r => runs[q].pc = "idle"

\* number of rows in the store inserted by run r for keyword k of category c
RowsOf(r, c, k) ==
  LET rows == {a \in DOMAIN store : a.run = r /\ a.cat = c /\ a.kw = k}
      RECURSIVE Sum(_)
      Sum(S) == IF S = {} THEN 0
                ELSE LET a == CHOOSE x \in S : TRUE
                     IN  store[a] + Sum(S \ {a})
  IN  Sum(rows)

\* C1: processKeyword never propagates an exception: no keyword promise is
\* ever rejected; an attempt that has ended is fulfilled with an Article or
\* with null, and has published exactly one terminal event (keyword_completed
\* or keyword_error), as its last event; an attempt still running has
\* published none.
C1_KeywordNeverRaises ==
  \A p \in AllTasks :
    LET t == runs[p[1]].tasks[p[2]]
    IN  /\ t.status # "rejected"
        /\ Ended(t) =>
             /\ t.status = "fulfilled"
             /\ Len(t.value) <= 1
             /\ TerminalCount(t.ev) = 1
             /\ Terminal(LastEv(t.ev))
        /\ ~Ended(t) => TerminalCount(t.ev) = 0

\* an attempt whose insert threw after a failed summary has ended
C1_Witness ==
  \E p \in AllTasks :
    LET t == runs[p[1]].tasks[p[2]]
    IN  /\ Ended(t)
        /\ LastEv(t.ev).type = "keyword_error"
        /\ t.sel # <<>>
        /\ t.summary = ""

\* C2: an attempt that has ended either (a) persisted exactly one Article,
\* returned it and reported keyword_completed{success:true}, or (b) persisted
\* none, returned null and reported keyword_completed{success:false} or
\* keyword_error.
C2_ArticleXorAbsent ==
  \A p \in AllTasks :
    LET r == p[1]
        k == p[2]
        t == runs[r].tasks[k]
        rows == RowsOf(r, runs[r].ci, k)
        saved == /\ Len(t.value) = 1
                 /\ t.inserted = 1
                 /\ LastEv(t.ev) = KwEv("keyword_completed", TRUE, "")
                 /\ t.value[1].run = r /\ t.value[1].kw = k
                 /\ t.value[1].cat = runs[r].ci
                 /\ OnlyRun(r) => (rows = 1 /\ BagIn(t.value[1], store))
        absent == /\ t.value = <<>>
                  /\ t.inserted = 0
                  /\ \/ /\ LastEv(t.ev).type = "keyword_completed"
                        /\ ~LastEv(t.ev).success
                        /\ LastEv(t.ev).reason # ""
                     \/ LastEv(t.ev).type = "keyword_error"
                  /\ OnlyRun(r) => rows = 0
    IN  Ended(t) => /\ t.ev # <<>>
                    /\ saved \/ absent
                    /\ ~(saved /\ absent)

\* both kinds of ending side by side in one batch
C2_Witness ==
  \E p \in AllTasks, q \in AllTasks :
    /\ p[1] = q[1]
    /\ Ended(runs[p[1]].tasks[p[2]]) /\ Ended(runs[q[1]].tasks[q[2]])
    /\ Len(runs[p[1]].tasks[p[2]].value) = 1
    /\ runs[q[1]].tasks[q[2]].value = <<>>
    /\ LastEv(runs[q[1]].tasks[q[2]].ev).type = "keyword_error"

InFlight(t) == t.pc \in {"fetching", "ranking", "summarizing", "saving"}

Settled(t) == t.pc \in {"done", "joined"}

\* processCategoryParallel has returned for the current, non-empty category
CategoryOver(rr) ==
  /\ rr.pc \in {"categoryDelay", "notifying", "done"}
  /\ rr.ci > 0
  /\ Len(rr.tasks) > 0

CategoryEvents(log, c) ==
  SelectSeq(log, LAMBDA e : e.cat = c /\ e.type \in
    {"category_completed", "category_skipped", "category_error"})

NonNull(results) == SelectSeq(results, LAMBDA x : x.value # <<>>)

\* the state of run rr when its current category has returned: every keyword
\* has its own outcome and category_completed reports them
C3_AllCollected(rr) ==
  CategoryOver(rr) =>
    /\ \A k \in DOMAIN rr.tasks : Settled(rr.tasks[k]) /\ rr.tasks[k].calls = 1
    /\ Len(rr.allResults) = Len(rr.tasks)
    /\ \A j \in DOMAIN rr.allResults : rr.allResults[j].status = "fulfilled"
    /\ CategoryEvents(rr.log, rr.ci) =
         << CompletedEv(rr.ci, Len(NonNull(rr.allResults)), Len(rr.tasks),
                        Len(rr.tasks) - Len(NonNull(rr.allResults)),
                        Len(NonNull(rr.allResults)) > 0,
                        Len(NonNull(rr.allResults)) = Len(rr.tasks)) >>

\* C3: a keyword that ends without an article leaves its siblings as they
\* are: the step in which it fails changes no other keyword processor of the
\* batch, and when the category returns every keyword of every batch has
\* reached its own outcome and category_completed has been published.
C3_SiblingsIsolated ==
  [][ \A r \in Runs :
        /\ \A k \in DOMAIN runs[r].tasks :
             ( /\ k \in DOMAIN runs'[r].tasks
               /\ InFlight(runs[r].tasks[k])
               /\ runs'[r].tasks[k].pc = "done"
               /\ runs'[r].tasks[k].value = <<>> )
             => \A j \in DOMAIN runs[r].tasks \ {k} :
                  /\ j \in DOMAIN runs'[r].tasks
                  /\ runs'[r].tasks[j] = runs[r].tasks[j]
        /\ C3_AllCollected(runs'[r]) ]_vars

\* a category of two batches has returned; in its first batch one keyword
\* failed at the insert and a sibling was saved, and the second batch was saved
C3_Witness ==
  \E r \in Runs :
    /\ CategoryOver(runs[r])
    /\ Len(runs[r].tasks) > BATCH_SIZE
    /\ \E i \in 1..BATCH_SIZE, j \in 1..BATCH_SIZE :
         /\ runs[r].allResults[i].value = <<>>
         /\ runs[r].allResults[j].value # <<>>
    /\ runs[r].allResults[BATCH_SIZE + 1].value # <<>>

BatchNo(k) == (k - 1) \div BATCH_SIZE

\* C4: the keywords of a category are started in configuration order in
\* consecutive batches of BATCH_SIZE = 5; at most 5 are in flight; a keyword
\* is started only when every keyword of the earlier batches has ended, and
\* together with the rest of its batch; every keyword is started at most
\* once, and exactly once when the category has returned.
C4_BatchesOfFive ==
  \A r \in Runs :
    LET ts == runs[r].tasks
        begun == {k \in DOMAIN ts : ts[k].pc # "idle"}
        flying == {k \in DOMAIN ts : InFlight(ts[k])}
    IN  /\ Cardinality(flying) <= 5
        /\ BATCH_SIZE = 5
        /\ \A k \in begun, j \in DOMAIN ts :
             /\ j < k => j \in begun
             /\ BatchNo(j) < BatchNo(k) => Settled(ts[j])
             /\ BatchNo(j) = BatchNo(k) => j \in begun
        /\ \A k \in DOMAIN ts :
             ts[k].calls = (IF k \in begun THEN 1 ELSE 0)
        /\ CategoryOver(runs[r]) => begun = DOMAIN ts

\* the sixth keyword is in flight after the first five have ended
C4_Witness ==
  \E r \in Runs :
    /\ Len(runs[r].tasks) > BATCH_SIZE
    /\ InFlight(runs[r].tasks[BATCH_SIZE + 1])
    /\ \A k \in 1..BATCH_SIZE : runs[r].tasks[k].pc = "joined"

IsCatTerminal(e) ==
  e.type \in {"category_completed", "category_skipped", "category_error"}

\* C5: in the events of a run, category_started of category c > 1 directly
\* follows the terminal event of category c - 1, the categories start in
\* snapshot order, and while a keyword processor is in flight the last
\* run-level event is the category_started of its own category.
C5_CategoriesSequential ==
  \A r \in Runs :
    LET log == runs[r].log
        starts == SelectSeq(log, LAMBDA e : e.type = "category_started")
    IN  /\ \A i \in DOMAIN starts : starts[i].cat = i
        /\ \A i \in DOMAIN log :
             (log[i].type = "category_started" /\ log[i].cat > 1) =>
               /\ i > 1
               /\ IsCatTerminal(log[i - 1])
               /\ log[i - 1].cat = log[i].cat - 1
        /\ (\E k \in DOMAIN runs[r].tasks : InFlight(runs[r].tasks[k])) =>
             /\ log # <<>>
             /\ log[Len(log)].type = "category_started"
             /\ log[Len(log)].cat = runs[r].ci

\* the third category is running after a completed and a skipped one
C5_Witness ==
  \E r \in Runs :
    /\ runs[r].ci = 3
    /\ \E k \in DOMAIN runs[r].tasks : InFlight(runs[r].tasks[k])
    /\ \E i \in DOMAIN runs[r].log : runs[r].log[i].type = "category_completed"
    /\ \E i \in DOMAIN runs[r].log : runs[r].log[i].type = "category_skipped"

\* C6: no step of a run removes a row that the same run inserted, and a run
\* has inserted nothing until its deleteArticlesByDate has returned.
C6_DeleteBeforeInsert ==
  [][ \A r \in Runs :
        /\ runs'[r] # runs[r] =>
             \A a \in DOMAIN store :
               a.run = r => (a \in DOMAIN store' /\ store'[a] >= store[a])
        /\ runs'[r].pc \in {"idle", "settings", "routeDelete", "deleting"} =>
             /\ runs'[r].inserts = 0
             /\ \A a \in DOMAIN store' : a.run # r ]_vars

\* a run inserted after its delete had removed the rows of an earlier run
C6_Witness ==
  \E r \in Runs, q \in Runs :
    /\ q # r
    /\ runs[q].pc = "done"
    /\ runs[q].newArticles # <<>>
    /\ \A a \in DOMAIN store : a.run = r
    /\ runs[r].inserts > 0
    /\ runs[q].crawledDate = runs[r].todayKST
    /\ store # EmptyBag

\* C7: when runs have never overlapped and none is in progress, the store
\* holds at most one row per keyword (of a category) and crawl date.
C7_OnePerKeywordAndDate ==
  (~overlapped /\ \A r \in Runs : ~InProgress(runs[r])) =>
    \A a \in DOMAIN store :
      /\ store[a] = 1
      /\ \A b \in DOMAIN store :
           (a.cat = b.cat /\ a.kw = b.kw /\ a.date = b.date) => a = b

\* two runs, one after the other, saved an article on the same date
C7_Witness ==
  /\ ~overlapped
  /\ \A r \in Runs : ~InProgress(runs[r])
  /\ \E r \in Runs, q \in Runs :
       /\ r # q
       /\ runs[r].inserts > 0 /\ runs[q].inserts > 0
       /\ runs[r].crawledDate = runs[q].crawledDate
       /\ runs[r].pc = "done" /\ runs[q].pc = "done"

\* crawlNews is executing: from its first statement to crawl_completed
CrawlRunning(rr) ==
  rr.pc \in {"deleting", "loading", "batch", "batchDelay", "categoryDelay",
             "notifying"}

\* C8: two crawlNews runs for the same logical date are never in progress
\* at the same time.
C8_SingleFlight ==
  \A r \in Runs, q \in Runs :
    (r # q /\ CrawlRunning(runs[r]) /\ CrawlRunning(runs[q])) =>
      runs[r].todayKST # runs[q].todayKST

CrawlStarted(rr) == rr.log # <<>>

\* crawl_completed is out and every category of the snapshot was started,
\* in order
CrawlCompleted(rr) ==
  /\ rr.pc = "done"
  /\ rr.log[Len(rr.log)].type = "crawl_completed"
  /\ LET starts == SelectSeq(rr.log, LAMBDA e : e.type = "category_started")
     IN  /\ Len(starts) = Len(rr.cats)
         /\ \A i \in DOMAIN starts : starts[i].cat = i

\* C9: once crawl_started is out, the run goes through every category and
\* publishes crawl_completed, whatever fails in between.
C9_RunCompletes ==
  \A r \in Runs : CrawlStarted(runs[r]) ~> CrawlCompleted(runs[r])

\* a run completed although an insert had failed in a category that was
\* not the last one
C9_Witness ==
  \E r \in Runs :
    /\ CrawlCompleted(runs[r])
    /\ Len(runs[r].cats) > 1
    /\ \E i \in DOMAIN runs[r].log :
         /\ runs[r].log[i].type = "category_completed"
         /\ runs[r].log[i].cat = 1
         /\ runs[r].log[i].count < runs[r].log[i].total
    /\ runs[r].inserts > 0

RECURSIVE SeqToBag(_)
SeqToBag(q) ==
  IF q = <<>> THEN EmptyBag ELSE SetToBag({Head(q)}) (+) SeqToBag(Tail(q))

\* C10 as stated: every run that has ended called sendNotification with the
\* list of its articles.
C10_AlwaysNotified ==
  \A r \in Runs :
    runs[r].pc = "done" => runs[r].notified = <<runs[r].newArticles>>

\* C10, amended: sendNotification is called only after the last category has
\* returned and before crawl_completed; a run that persisted at least one
\* Article calls it exactly once, with exactly the Articles this run
\* persisted; a run that persisted none does not call it.
C10_NotifiedIffPersisted ==
  \A r \in Runs :
    LET rr == runs[r]
    IN  /\ rr.notified # <<>> =>
             /\ rr.pc \in {"notifying", "done"}
             /\ rr.ci = Len(rr.cats)
             /\ \A k \in DOMAIN rr.tasks : Settled(rr.tasks[k])
        /\ rr.pc = "notifying" =>
             \A i \in DOMAIN rr.log : rr.log[i].type # "crawl_completed"
        /\ rr.pc \in {"notifying", "done"} =>
             IF rr.inserts > 0
               THEN /\ Len(rr.notified) = 1
                    /\ Len(rr.notified[1]) = rr.inserts
                    /\ \A i \in DOMAIN rr.notified[1] :
                         /\ rr.notified[1][i].run = r
                         /\ \A j \in DOMAIN rr.notified[1] :
                              rr.notified[1][i] = rr.notified[1][j] => i = j
                    /\ OnlyRun(r) => SeqToBag(rr.notified[1]) = store
               ELSE rr.notified = <<>>

\* a run notified about articles of two categories
C10_Witness ==
  \E r \in Runs :
    /\ runs[r].pc = "done"
    /\ Len(runs[r].notified) = 1
    /\ \E i \in DOMAIN runs[r].notified[1], j \in DOMAIN runs[r].notified[1] :
         runs[r].notified[1][i].cat # runs[r].notified[1][j].cat

CompletedAt(log) == {i \in DOMAIN log : log[i].type = "crawl_completed"}

\* crawl_completed, if published, is the one last event of the run and counts
\* the Articles the run persisted
C11_Safe(rr) ==
  /\ Cardinality(CompletedAt(rr.log)) <= 1
  /\ \A i \in CompletedAt(rr.log) :
       /\ i = Len(rr.log)
       /\ rr.pc = "done"
       /\ rr.log[i].count = rr.inserts
       /\ rr.log[i].count = Len(rr.newArticles)
       /\ \A k \in DOMAIN rr.tasks : Settled(rr.tasks[k])
  /\ rr.pc = "done" => CompletedAt(rr.log) # {}

\* C11: a run that has published crawl_started publishes crawl_completed,
\* exactly once and as its last event, with totalArticles = the number of
\* Articles the run persisted; this also when sendNotification throws.
C11_CompletedOnceLast ==
  /\ [](\A r \in Runs : C11_Safe(runs[r]))
  /\ \A r \in Runs :
       CrawlStarted(runs[r]) ~> (CompletedAt(runs[r].log) # {})

\* crawl_completed with the run's count is out after sendNotification threw
C11_Witness ==
  \E r \in Runs :
    /\ runs[r].notifyThrew
    /\ runs[r].pc = "done"
    /\ LastEv(runs[r].log).type = "crawl_completed"
    /\ LastEv(runs[r].log).count = 2
    /\ runs[r].inserts = 2

\* C12: a category without keywords yields no article, starts no keyword
\* processor (hence no search request and no LLM request) and is reported by
\* category_started directly followed by category_skipped; it is never
\* reported by category_error or category_completed.
C12_EmptyCategorySkipped ==
  \A r \in Runs :
    LET rr == runs[r]
    IN  \A c \in 1..rr.ci :
          rr.cats[c] = 0 =>
            /\ CategoryEvents(rr.log, c) =
                 << RunEv("category_skipped", c, 0, 0, FALSE, FALSE) >>
            /\ \A i \in DOMAIN rr.log :
                 (rr.log[i].type = "category_started" /\ rr.log[i].cat = c) =>
                   /\ i < Len(rr.log)
                   /\ rr.log[i + 1].type = "category_skipped"
                   /\ rr.log[i + 1].cat = c
            /\ \A i \in DOMAIN rr.newArticles : rr.newArticles[i].cat # c
            /\ \A a \in DOMAIN store : ~(a.run = r /\ a.cat = c)
            /\ c = rr.ci =>
                 /\ rr.tasks = <<>>
                 /\ rr.allResults = <<>>
                 /\ rr.pc \in {"categoryDelay", "notifying", "done"}

\* an empty category was skipped between a category that saved an article
\* and the next one
C12_Witness ==
  \E r \in Runs :
    /\ runs[r].ci = 2
    /\ runs[r].cats[2] = 0
    /\ runs[r].pc = "categoryDelay"
    /\ LastEv(runs[r].log).type = "category_skipped"
    /\ runs[r].newArticles # <<>>

\* number of rows in the store inserted by run r for category c
SavedIn(r, c) ==
  LET RECURSIVE Sum(_)
      Sum(k) == IF k = 0 THEN 0 ELSE RowsOf(r, c, k) + Sum(k - 1)
  IN  Sum(runs[r].cats[c])

\* C13: category_completed of a category with n >= 1 keywords, s of which
\* were saved, reports articlesCount = s, failedKeywords = n - s and
\* totalKeywords = n, with success = (s > 0) and totalSuccess = (s = n); the
\* category is never reported by category_error.
C13_CategoryClassified ==
  \A r \in Runs :
    LET rr == runs[r]
    IN  /\ \A i \in DOMAIN rr.log : rr.log[i].type # "category_error"
        /\ \A i \in DOMAIN rr.log :
             rr.log[i].type = "category_completed" =>
               LET e == rr.log[i]
                   n == rr.cats[e.cat]
                   s == Cardinality({j \in DOMAIN rr.newArticles :
                                      rr.newArticles[j].cat = e.cat})
               IN  /\ n >= 1
                   /\ OnlyRun(r) => s = SavedIn(r, e.cat)
                   /\ e.count = s /\ e.failed = n - s /\ e.total = n
                   /\ s = 0 => (~e.success /\ ~e.totalSuccess)
                   /\ (0 < s /\ s < n) => (e.success /\ ~e.totalSuccess)
                   /\ s = n => (e.success /\ e.totalSuccess)
        /\ \A c \in 1..rr.ci :
             (rr.cats[c] >= 1 /\ (c < rr.ci \/ CategoryOver(rr))) =>
               Len(CategoryEvents(rr.log, c)) = 1

\* one run reported a partial completion and a category with no news
C13_Witness ==
  \E r \in Runs, i \in 1..8, j \in 1..8 :
    /\ i \in DOMAIN runs[r].log /\ j \in DOMAIN runs[r].log
    /\ runs[r].log[i].type = "category_completed"
    /\ runs[r].log[i].count = 1 /\ runs[r].log[i].total = 2
    /\ runs[r].log[j].type = "category_completed"
    /\ runs[r].log[j].count = 0 /\ runs[r].log[j].total = 1

\* the summarizer threw for the selected article of attempt t (at once,
\* without credentials, or when its request returned)
SummaryFailed(t) ==
  /\ t.pc \in {"saving", "done"}
  /\ t.sel # <<>>
  /\ t.summary = ""

\* C14: a failure of the summarizer does not end the keyword: the insert is
\* issued with summary = "", and when the insert returns the row is in the
\* store with summary = "", keyword_completed{success:true} is the terminal
\* event and the article is in the results of the category.
C14_SummaryFailureKept ==
  /\ [](\A p \in AllTasks :
         LET r == p[1]
             t == runs[r].tasks[p[2]]
         IN  /\ t.pc = "saving" => (t.sel # <<>> /\ TerminalCount(t.ev) = 0)
             /\ (SummaryFailed(t) /\ t.inserted = 1) =>
                  /\ Len(t.value) = 1
                  /\ t.value[1].summary = ""
                  /\ LastEv(t.ev) = KwEv("keyword_completed", TRUE, "")
                  /\ OnlyRun(r) => BagIn(t.value[1], store)
                  /\ CategoryOver(runs[r]) =>
                       /\ \E i \in DOMAIN runs[r].newArticles :
                            runs[r].newArticles[i] = t.value[1]
                       /\ \E i \in DOMAIN runs[r].log :
                            /\ runs[r].log[i].type = "category_completed"
                            /\ runs[r].log[i].cat = runs[r].ci
                            /\ runs[r].log[i].success)
  /\ [][ \A r \in Runs : \A k \in DOMAIN runs[r].tasks :
           LET t == runs[r].tasks[k]
           IN  /\ (t.pc = "summarizing" /\ runs'[r].tasks[k] # t) =>
                    /\ runs'[r].tasks[k].pc = "saving"
                    /\ runs'[r].tasks[k].sel = t.sel
                    /\ runs'[r].tasks[k].ev = t.ev
               /\ (t.pc = "saving" /\ t.summary = ""
                     /\ k \in DOMAIN runs'[r].tasks
                     /\ runs'[r].tasks[k].inserted = 1) =>
                    /\ runs'[r].tasks[k].value[1].summary = ""
                    /\ BagIn(runs'[r].tasks[k].value[1], store')
                    /\ LastEv(runs'[r].tasks[k].ev) =
                         KwEv("keyword_completed", TRUE, "") ]_vars

\* a category has returned with an article whose summary request failed
C14_Witness ==
  \E p \in AllTasks :
    LET t == runs[p[1]].tasks[p[2]]
    IN  /\ SummaryFailed(t)
        /\ Len(t.ev) = 5
        /\ t.inserted = 1
        /\ CategoryOver(runs[p[1]])

(* ------------------------- selector properties --------------------------- *)

\* the search hits of the keyword of a selector scenario
Input == CHOOSE articles \in pool : TRUE

\* the nightly keyword processor of a selector scenario has got its hits
\* (the search had its credentials)
NightlyFetched ==
  /\ runs[1].pc # "idle"
  /\ runs[1].tasks[1].pc # "fetching"
  /\ runs[1].tasks[1].searchError = ""

\* the backfill keyword processor of a selector scenario has got its hits
BackfillFetched == bf.pc \notin {"idle", "fetching"}

\* C15: for no candidate the selector returns null; for exactly one it
\* returns that candidate, promotional or not, and
\* selectTopImportantArticles is not called; in the nightly crawl and in
\* the backfill.
C15_NoneOrSingle ==
  /\ NightlyFetched =>
       LET t == runs[1].tasks[1]
       IN  /\ Len(Input) = 0 =>
                /\ t.pc = "done" /\ t.sel = <<>> /\ t.value = <<>>
                /\ t.rank = "none"
                /\ LastEv(t.ev) = KwEv("keyword_completed", FALSE,
                                       "no articles")
           /\ Len(Input) = 1 =>
                /\ t.sel = <<Input[1]>>
                /\ t.rank = "none"
                /\ t.pc \in {"summarizing", "saving", "done"}
                /\ ~(LastEv(t.ev).type = "keyword_completed"
                       /\ ~LastEv(t.ev).success)
  /\ BackfillFetched =>
       /\ Len(Input) = 0 => (bf.pc = "done" /\ bf.sel = <<>>
                               /\ bf.value = <<>>)
       /\ Len(Input) = 1 => bf.sel = <<Input[1]>>

\* the nightly crawl saved the only candidate, a promotional one
C15_Witness ==
  /\ NightlyFetched
  /\ Len(Input) = 1
  /\ Input[1].promo
  /\ runs[1].tasks[1].inserted = 1
  /\ runs[1].tasks[1].value[1].title = Input[1]

AllPromotional(articles) ==
  \A i \in DOMAIN articles : articles[i].promo

AvgSim(articles, i) ==
  AverageSimilarity([j \in 1..Len(articles) |-> articles[j].text], i)

\* article is a candidate of the list that is at least as similar to the
\* others as every other candidate
IsMostSimilar(article, articles) ==
  \E i \in DOMAIN articles :
    /\ articles[i] = article
    /\ \A j \in DOMAIN articles : AvgSim(articles, i) >= AvgSim(articles, j)

\* C17 as stated: in the backfill, for two or more candidates that are all
\* promotional, the selector picks the unfiltered candidate with the highest
\* average similarity to the other unfiltered candidates.
C17_BackfillMostSimilar ==
  (BackfillFetched /\ Len(Input) >= 2 /\ AllPromotional(Input)) =>
    /\ Len(bf.sel) = 1
    /\ IsMostSimilar(bf.sel[1], Input)

\* C17, amended: in the backfill, for two or more candidates that are all
\* promotional, the selector returns a pick, and the pick is the first
\* candidate of the unfiltered list; the keyword goes on to the summarizer
\* or the insert.
C17_BackfillFirstUnfiltered ==
  (BackfillFetched /\ Len(Input) >= 2 /\ AllPromotional(Input)) =>
    /\ bf.sel = <<Input[1]>>
    /\ bf.pc = "done" =>
         (bf.value = <<>> \/ bf.value[1].title = Input[1])

\* the backfill saved the first of three promotional candidates although
\* another one is more similar to the rest
C17_Witness ==
  /\ BackfillFetched
  /\ Len(Input) = 3
  /\ AllPromotional(Input)
  /\ bf.inserted = 1
  /\ bf.value[1].title = Input[1]
  /\ ~IsMostSimilar(Input[1], Input)

\* the ranking of attempt t failed or gave no index in range
RankingFailed(t) == t.rank \in {"nokey", "error", "nomatch", "novalid"}

\* C18: in the nightly selector with two or more candidates, when the
\* ranking fails or yields no valid index, the selected candidate is the one
\* of the unfiltered list with the highest average similarity to the others,
\* and the row that is saved is made from it.
C18_RankFailureSimilarityFallback ==
  (NightlyFetched /\ Len(Input) >= 2 /\ RankingFailed(runs[1].tasks[1])) =>
    LET t == runs[1].tasks[1]
    IN  /\ Len(t.sel) = 1
        /\ IsMostSimilar(t.sel[1], Input)
        /\ t.inserted = 1 => IsMostSimilar(t.value[1].title, Input)

\* the filtered candidates the returned indices of attempt t refer to, in
\* the order of the indices (indices out of range discarded)
Referenced(t) ==
  LET filtered == filterPromotionalArticles(Input)
      inRange == SelectSeq(t.top, LAMBDA i : i >= 0 /\ i < Len(filtered))
  IN  [j \in 1..Len(inRange) |-> filtered[inRange[j] + 1]]

\* article is the first of the candidates of list with the longest body
IsFirstLongest(article, list) ==
  \E j \in DOMAIN list :
    /\ list[j] = article
    /\ \A i \in DOMAIN list :
         /\ list[i].dlen <= article.dlen
         /\ i < j => list[i].dlen < article.dlen

\* the ranking of attempt t gave at least one index in range
RankingGaveIndices(t) == t.rank \in {"all", "valid"}

\* C19 as stated: when the ranking yields a valid index, the selector
\* returns the first of the referenced filtered candidates with the longest
\* body.
C19_LongestReferenced ==
  (NightlyFetched /\ RankingGaveIndices(runs[1].tasks[1])) =>
    LET t == runs[1].tasks[1]
    IN  /\ Len(t.sel) = 1
        /\ IsFirstLongest(t.sel[1], Referenced(t))

\* C19, amended: when the ranking yields a valid index, the selector
\* returns, among the referenced filtered candidates that have a title and a
\* body, the first (in the order of the indices) with the longest body, and
\* null when no referenced candidate has both; a result is a member of the
\* filtered candidates.
C19_LongestValidReferenced ==
  (NightlyFetched /\ RankingGaveIndices(runs[1].tasks[1])) =>
    LET t == runs[1].tasks[1]
        usable == SelectSeq(Referenced(t),
                            LAMBDA a : a.tlen > 0 /\ a.dlen > 0)
    IN  /\ Len(Referenced(t)) >= 1
        /\ IF usable = <<>>
             THEN /\ t.sel = <<>>
                  /\ t.pc = "done"
                  /\ LastEv(t.ev) = KwEv("keyword_completed", FALSE,
                                         "selection failed")
             ELSE /\ Len(t.sel) = 1
                  /\ IsFirstLongest(t.sel[1], usable)
                  /\ ~t.sel[1].promo
                  /\ \E i \in DOMAIN Input : Input[i] = t.sel[1]

\* the LLM named the candidates in an order of its own and the second one
\* named, with the longer body, was selected
C19_Witness ==
  /\ NightlyFetched
  /\ runs[1].tasks[1].rank = "valid"
  /\ runs[1].tasks[1].top = <<2, 0>>
  /\ Len(runs[1].tasks[1].sel) = 1
  /\ Referenced(runs[1].tasks[1])[1].dlen = 1
  /\ runs[1].tasks[1].sel[1] = Referenced(runs[1].tasks[1])[2]
  /\ runs[1].tasks[1].sel[1].dlen = 2

\* position i of the list holds the first of its most similar candidates
IsFirstMostSimilar(articles, i) ==
  /\ i \in DOMAIN articles
  /\ \A j \in DOMAIN articles :
       /\ AvgSim(articles, i) >= AvgSim(articles, j)
       /\ j < i => AvgSim(articles, j) < AvgSim(articles, i)

\* C20: the similarity pick is a function of the candidate list: where the
\* backfill takes it (two or more candidates left by the filter), the
\* selected candidate is the one whose average similarity to the others is
\* not below that of any other, and the first such in the list.
C20_SimilarityPickMaximal ==
  LET filtered == filterPromotionalArticles(Input)
  IN  (BackfillFetched /\ Len(filtered) >= 2) =>
        /\ Len(bf.sel) = 1
        /\ \E i \in DOMAIN filtered :
             /\ IsFirstMostSimilar(filtered, i)
             /\ bf.sel[1] = filtered[i]
        /\ \A i \in DOMAIN filtered :
             IsFirstMostSimilar(filtered, i) => bf.sel[1] = filtered[i]

\* the backfill saved the first of two different, equally and most similar
\* candidates, ahead of a less similar one
C20_Witness ==
  LET filtered == filterPromotionalArticles(Input)
  IN  /\ BackfillFetched
      /\ bf.inserted = 1
      /\ \E i \in DOMAIN filtered, j \in DOMAIN filtered,
            k \in DOMAIN filtered :
           /\ i < j
           /\ filtered[i] # filtered[j]
           /\ IsFirstMostSimilar(filtered, i)
           /\ AvgSim(filtered, j) = AvgSim(filtered, i)
           /\ AvgSim(filtered, k) < AvgSim(filtered, i)
           /\ bf.value[1].title = filtered[i]

(* ------------------------ broadcaster properties ------------------------- *)

\* the events observer c was sent
Received(c) == {c.inbox[n] : n \in DOMAIN c.inbox}

\* C21: broadcastProgress never throws into its caller: whatever the
\* observers' states, whether a send fails and whether the broadcast handle
\* is set, every call returns normally, so the publishing step goes on.
C21_BroadcastNeverThrows ==
  /\ wss.outcome # "threw"
  /\ wss.published > 0 => wss.outcome = "returned"

\* a send to an open observer threw (a later observer, open at that time,
\* was neither sent the event nor failed on it) and the call returned
C21_Witness ==
  /\ wss.outcome = "returned"
  /\ \E i \in DOMAIN wss.clients, j \in DOMAIN wss.clients :
       \E m \in wss.clients[i].failed :
         /\ i < j
         /\ m \in wss.clients[j].due
         /\ m \notin Received(wss.clients[j])
         /\ m \notin wss.clients[j].failed

\* C22: every published event is delivered to every observer whose channel
\* is open when it is published, but for an observer whose own send fails:
\* the failure of one send does not keep the event from the other open
\* observers; an observer that is not open then is not sent the event.
C22_DeliveredToAllOpen ==
  \A i \in DOMAIN wss.clients :
    LET c == wss.clients[i]
    IN  \A m \in 1..wss.published :
          /\ (m \in c.due /\ m \notin c.failed) => m \in Received(c)
          /\ m \notin c.due => m \notin Received(c)

(* ---------------------------- call properties ---------------------------- *)

\* summarizeArticle has ended, for a reply the LLM gave
Summarized ==
  /\ call.fn = "summarizeArticle"
  /\ call.pc # "called"
  /\ call.hasKey
  /\ call.reply.kind = "reply"

\* C23: summarizeArticle fails for every LLM reply whose text holds one of
\* the refusal patterns, whatever the finish reason of the reply; such a
\* text is never returned as the summary.
C23_RefusalAlwaysFails ==
  (Summarized /\ hasMetaMessage(call.reply.content)) => call.pc = "threw"

\* C24: summarizeArticle returns only a non-empty text: an empty or
\* white-space reply, truncated or not, makes it throw, and a truncated
\* reply with other content is returned trimmed.
C24_ReturnsOnlyNonEmpty ==
  Summarized =>
    /\ call.pc = "returned" => Len(call.value) > 0
    /\ Len(Trim(call.reply.content)) = 0 => call.pc = "threw"
    /\ (call.reply.finish = "length" /\ Len(Trim(call.reply.content)) > 0)
         => (call.pc = "returned" /\ call.value = Trim(call.reply.content))

\* searchLiveNews has returned the list of analyzeAndRankArticles
LiveSearchReturned ==
  /\ call.fn = "searchLiveNews"
  /\ call.pc = "returned"

\* C25: the list analyzeAndRankArticles returns is in non-increasing order
\* of importance, and each of its elements is one of the articles it was
\* given (same title, link and publication date) with a summary and an
\* importance added.
C25_SortedInputArticles ==
  LiveSearchReturned =>
    /\ \A i \in 1..(Len(call.value) - 1) :
         call.value[i].importance >= call.value[i + 1].importance
    /\ \A i \in DOMAIN call.value :
         \E j \in DOMAIN call.input :
           /\ call.value[i].title = call.input[j].title
           /\ call.value[i].link = call.input[j].link
           /\ call.value[i].age = call.input[j].age

\* C26: whatever the articles and the reply of the LLM, and without the
\* LLM, analyzeAndRankArticles returns at most 20 articles, each with an
\* importance among the integers 1..10.
C26_AtMostTwentyScoredOneToTen ==
  LiveSearchReturned =>
    /\ Len(call.value) <= 20
    /\ \A i \in DOMAIN call.value : call.value[i].importance \in 1..10

\* the bigrams of a title, white space left out
Bigrams(title) ==
  LET s == SelectSeq(title, LAMBDA ch : ch # " ")
  IN  { <<s[i], s[i + 1]>> : i \in 1..(Len(s) - 1) }

\* 0.7 in the unit of compareTwoStrings
SIMILARITY_THRESHOLD == 42

\* C27: the result of a live search never holds two articles whose titles
\* are more than 0.7 similar, nor one hit twice.
C27_NoNearDuplicates ==
  LiveSearchReturned =>
    \A i \in DOMAIN call.value, j \in DOMAIN call.value :
      i < j =>
        /\ call.value[i].link # call.value[j].link
        /\ compareTwoStrings(Bigrams(call.value[i].title),
                             Bigrams(call.value[j].title))
             <= SIMILARITY_THRESHOLD

\* C30: a headline that keeps at least 5 characters after its leading tags
\* are removed is cleaned to a title of at least 5 characters, by the
\* cleanTitle of the nightly crawl and the live search and by the one of the
\* backfill.
C30_CleanTitleKeepsFive ==
  (call.fn = "cleanTitle" /\ call.pc = "returned"
     /\ Len(Trim(call.input)) >= 5)
    => Len(call.value) >= 5

(* ------------------------- credentials and dates ------------------------- *)

\* C28: the rows a crawlNews run inserts all carry the run's one crawl
\* date, the KST date read when the run starts, whenever each row is saved,
\* and that date is the one whose rows the run deleted at its start.
C28_SharedCrawledAt ==
  \A r \in Runs :
    runs[r].todayKST # -1 =>
      /\ \A a \in BagToSet(store) : a.run = r => a.date = runs[r].crawledDate
      /\ runs[r].crawledDate = runs[r].todayKST

\* C29: a keyword whose search finds no credentials ends with an error and
\* not as a keyword without articles, and a ranking without the LLM key
\* gives no default ranking.
C29_MissingCredentialsAreErrors ==
  \A k \in DOMAIN runs[1].tasks :
    LET t == runs[1].tasks[k]
    IN  /\ (Ended(t) /\ t.searchError = "credentials")
             => LastEv(t.ev).type = "keyword_error"
        /\ t.rank = "nokey" => t.top = <<>>

(* --------------------------- entity decoding ----------------------------- *)

\* decodeHTMLEntities has returned
Decoded == call.fn = "decodeHTMLEntities" /\ call.pc = "returned"

\* the text contains an encoded ampersand followed by the rest of an entity
\* token: "&amp;" directly before "amp;", "lt;", "#39;" or "#x27;"
HasEncodedAmpersand(s) ==
  LET rests == { <<"a", "m", "p", ";">>, <<"l", "t", ";">>,
                 <<"#", "3", "9", ";">>, <<"#", "x", "2", "7", ";">> }
  IN  \E i \in 1..Len(s) : \E rest \in rests :
        /\ i + 4 + Len(rest) <= Len(s)
        /\ SubSeq(s, i, i + 4 + Len(rest)) = <<"&", "a", "m", "p", ";">> \o rest

KeywordEventsInOrder(t) ==
  LET head == <<"keyword_started", "keyword_articles_found">>
      picked == <<"keyword_article_selected", "keyword_summarizing">>
      sequences == { head \o <<"keyword_completed">>,
                     head \o picked \o <<"keyword_completed">>,
                     head \o picked \o <<"keyword_error">> }
      types == [i \in DOMAIN t.ev |-> t.ev[i].type]
  IN  /\ \E s \in sequences :
           Len(types) <= Len(s) /\ types = SubSeq(s, 1, Len(types))
      /\ \A i \in DOMAIN t.ev :
           t.ev[i].type = "keyword_completed" =>
             \* success:true closes the long sequence, after the insert;
             \* success:false closes the short one
             /\ t.ev[i].success <=> i = 5
             /\ t.ev[i].success => t.inserted = 1 /\ t.value # <<>>
             /\ i = Len(t.ev)

\* C32: the events of a keyword are keyword_started, keyword_articles_found,
\* then, only when a representative was selected, keyword_article_selected
\* and keyword_summarizing, then one terminal event; the two middle events
\* never follow a search without hits or a failed selection, and
\* keyword_completed{success:true} is published only after the insert.
C32_KeywordEventOrder ==
  \A r \in Runs : \A k \in DOMAIN runs[r].tasks :
    KeywordEventsInOrder(runs[r].tasks[k])

\* a keyword has run through the long sequence and its article is stored,
\* and another one has ended after a search without hits
C32_Witness ==
  \E r \in Runs : \E k, j \in DOMAIN runs[r].tasks :
    /\ Len(runs[r].tasks[k].ev) = 5
    /\ runs[r].tasks[k].ev[5] = KwEv("keyword_completed", TRUE, "")
    /\ runs[r].tasks[k].inserted = 1
    /\ Len(runs[r].tasks[j].ev) = 3
    /\ runs[r].tasks[j].ev[3] = KwEv("keyword_completed", FALSE, "no articles")

\* the positions of the log at which category c starts and at which it ends
StartedAt(log, c) ==
  {i \in DOMAIN log : log[i].type = "category_started" /\ log[i].cat = c}

TerminalAt(log, c) ==
  {i \in DOMAIN log :
     /\ log[i].type \in {"category_completed", "category_skipped",
                         "category_error"}
     /\ log[i].cat = c}

\* the category events of a run, and the keywords in flight, are in order
CategoryEventsInOrder(rr) ==
  \A c \in DOMAIN rr.cats :
    /\ Cardinality(StartedAt(rr.log, c)) <= 1
    /\ Cardinality(TerminalAt(rr.log, c)) <= 1
    \* the terminal event comes after category_started, and nothing of the
    \* run's own log comes between them
    /\ \A i \in TerminalAt(rr.log, c) : (i - 1) \in StartedAt(rr.log, c)
    \* whatever the run publishes after the category has started and that
    \* is not this category's, comes after its terminal event
    /\ \A i \in StartedAt(rr.log, c) : \A j \in DOMAIN rr.log :
         j > i /\ rr.log[j].cat # c =>
           \E e \in TerminalAt(rr.log, c) : e < j
    \* keywords publish only while their category is open: after
    \* category_started and, unless they have reached their terminal
    \* event, before the terminal event of the category
    /\ c = rr.ci =>
         \A k \in DOMAIN rr.tasks :
           /\ rr.tasks[k].ev # <<>> => StartedAt(rr.log, c) # {}
           /\ TerminalAt(rr.log, c) # {} =>
                rr.tasks[k].pc \in {"done", "joined"}

\* a category has started and has not published its terminal event
OpenCategory(rr) ==
  \E c \in DOMAIN rr.cats :
    StartedAt(rr.log, c) # {} /\ TerminalAt(rr.log, c) = {}

\* C33: every category of a run gets exactly one terminal event
\* (category_completed, category_skipped or category_error) after its
\* category_started; the events of its keywords lie between the two, and no
\* event of the next category comes before the terminal event.
C33_CategoryEventsBracketed ==
  /\ [](\A r \in Runs : CategoryEventsInOrder(runs[r]))
  /\ \A r \in Runs : OpenCategory(runs[r]) ~> ~ OpenCategory(runs[r])

\* a run is over in which one category was skipped and another one, with a
\* keyword that ran to its terminal event, was completed
C33_Witness ==
  \E r \in Runs : \E c, d \in DOMAIN runs[r].cats :
    /\ runs[r].pc = "done"
    /\ \E i \in TerminalAt(runs[r].log, c) :
         runs[r].log[i].type = "category_skipped"
    /\ \E i \in TerminalAt(runs[r].log, d) :
         /\ runs[r].log[i].type = "category_completed"
         /\ runs[r].log[i].total > 0
    /\ \A e \in DOMAIN runs[r].cats : TerminalAt(runs[r].log, e) # {}

(* --------------------------- deletes of a trigger ------------------------ *)

\* C35: a step that deletes articles is the delete of a trigger or of the
\* crawl it starts, and every article it deletes carries the logical
\* (UTC+9) date of that run, at any time of day.
C35_DeletesOwnDateOnly ==
  [][\A a \in DOMAIN store :
       (a \notin DOMAIN store' \/ store'[a] < store[a]) =>
         \E r \in Runs :
           /\ runs[r].pc \in {"routeDelete", "deleting"}
           /\ runs'[r].pc # runs[r].pc
           /\ runs'[r].todayKST = a.date]_vars

(* ------------------------- ranking request guard ------------------------- *)

\* the ranking request of attempt t has been sent
RankRequestSent(t) ==
  t.pc = "ranking" \/ t.rank \in {"error", "nomatch", "novalid", "valid"}

\* C36 as stated: the ranking request is sent only when more than 3
\* candidates remain after the promotional filter; with 2 or 3 remaining no
\* request is made and the result is the first remaining candidate with the
\* longest body; with exactly 1 remaining that candidate is the result.
C36_RequestOnlyAboveThree ==
  NightlyFetched =>
    LET t == runs[1].tasks[1]
        remaining == filterPromotionalArticles(Input)
    IN  /\ RankRequestSent(t) => Len(remaining) > 3
        /\ Len(remaining) \in {2, 3} =>
             /\ ~ RankRequestSent(t)
             /\ Len(t.sel) = 1
             /\ IsFirstLongest(t.sel[1], remaining)
        /\ Len(remaining) = 1 => t.sel = <<remaining[1]>>

\* C36, amended: the ranking request is sent only when more than 3
\* candidates remain after the promotional filter; with 1, 2 or 3 remaining
\* no request is made and the result is, among the remaining candidates
\* that have a title and a body, the first with the longest body, and null
\* when none has both; a candidate that was the only search hit is the
\* result whatever it holds.
C36_RequestOnlyAboveThreeUsable ==
  NightlyFetched =>
    LET t == runs[1].tasks[1]
        remaining == filterPromotionalArticles(Input)
        usable == SelectSeq(remaining, LAMBDA a : a.tlen > 0 /\ a.dlen > 0)
    IN  /\ RankRequestSent(t) => Len(remaining) > 3
        /\ Len(remaining) \in {1, 2, 3} =>
             /\ ~ RankRequestSent(t)
             /\ IF Len(Input) = 1 THEN t.sel = <<Input[1]>>
                ELSE IF usable = <<>>
                  THEN /\ t.sel = <<>>
                       /\ t.pc = "done"
                       /\ LastEv(t.ev) = KwEv("keyword_completed", FALSE,
                                              "selection failed")
                  ELSE /\ Len(t.sel) = 1
                       /\ IsFirstLongest(t.sel[1], usable)

\* three candidates remained of four, two of them with the longest body, and
\* the first of the two was saved without a ranking request
C36_Witness ==
  /\ NightlyFetched
  /\ Len(Input) = 4
  /\ Len(filterPromotionalArticles(Input)) = 3
  /\ LET t == runs[1].tasks[1]
         remaining == filterPromotionalArticles(Input)
     IN  /\ t.rank \in {"all", "nokey"}
         /\ t.inserted = 1
         /\ \E i, j \in DOMAIN remaining :
              /\ i < j
              /\ remaining[i] = t.sel[1]
              /\ remaining[j].dlen = remaining[i].dlen
              /\ \A h \in DOMAIN remaining :
                   remaining[h].dlen <= remaining[i].dlen

(* --------------------------- backfill, repeated -------------------------- *)

\* the number of rows the store holds for the date and the keyword of the
\* backfill scenario
BackfillRows ==
  BagCardinality([a \in {x \in DOMAIN store : x.date = BackfillDate}
                    |-> store[a]])

\* C40: when the backfill has run twice for a date, with the same search
\* results, the store holds for that date what the first run left: at most
\* one article for the keyword and the date.
C40_BackfillIdempotent ==
  (bf.pass = 2 /\ bf.pc = "done") =>
    /\ BackfillRows <= 1
    /\ bf.first # EmptyBag => store = bf.first

(* -------------------------- scheduler properties ------------------------- *)

\* the tasks that run
ActiveTasks == {i \in DOMAIN sched.tasks : sched.tasks[i] = "active"}

\* C34: every task cron.schedule has created is the one scheduledTask
\* refers to or has been stopped, so at most one task is active; and once
\* no call is in flight, no task is active while the stored settings are
\* disabled.
C34_AtMostOneActiveTask ==
  /\ ActiveTasks \subseteq {sched.scheduledTask}
  /\ ((\A c \in 1..MaxRequests : sched.stacks[c] = <<>>)
        /\ ~ sched.settings.enabled) => ActiveTasks = {}

\* no call of the scheduler is in flight
Quiet == \A c \in 1..MaxRequests : sched.stacks[c] = <<>>

\* within a request initializeScheduler is in flight twice at most, the
\* call and one nested call; and when a request that ran
\* initializeScheduler is over, a task runs only for enabled settings with
\* a valid expression
InitializeSettles ==
  /\ \A c \in 1..MaxRequests :
       Cardinality({i \in DOMAIN sched.stacks[c] :
         sched.stacks[c][i].fn = "initializeScheduler"}) <= 2
  /\ (Quiet /\ sched.requests # <<>>
        /\ sched.requests[Len(sched.requests)] # "stopScheduler") =>
       /\ sched.settings.enabled =>
            /\ validate(sched.settings.cronExpression)
            /\ sched.scheduledTask # 0
            /\ ActiveTasks = {sched.scheduledTask}
       /\ ~ sched.settings.enabled => ActiveTasks = {}
  /\ (Quiet /\ sched.requests = <<"initializeScheduler">>
        /\ sched.boot.enabled
        /\ ~ validate(sched.boot.cronExpression)) =>
       /\ ~ sched.settings.enabled
       /\ ActiveTasks = {}

\* C37: initializeScheduler terminates for every stored row: for enabled
\* settings with an invalid cron expression the recursion through
\* updateSchedulerSettings ends after one nested initializeScheduler, with
\* enabled = false stored and no task active.
C37_InitializeTerminates ==
  /\ []InitializeSettles
  /\ \A c \in 1..MaxRequests :
       (sched.stacks[c] # <<>>) ~> (sched.stacks[c] = <<>>)

\* the server has started on enabled settings with an invalid expression:
\* its initializeScheduler is over and the settings are disabled
C37_Witness ==
  /\ Quiet
  /\ sched.requests = <<"initializeScheduler">>
  /\ sched.boot = [enabled |-> TRUE, cronExpression |-> INVALID_EXPRESSION]
  /\ sched.settings =
       [enabled |-> FALSE, cronExpression |-> INVALID_EXPRESSION]
  /\ ActiveTasks = {}

(* ------------------------ progress hook properties ----------------------- *)

\* C39: every socket the hook has created is the one in wsRef or is closed
\* or closing, and no progress event is handed to onmessage twice.
C39_OneLiveSocket ==
  /\ \A i \in DOMAIN hook.sockets :
       i = hook.wsRef \/ hook.sockets[i] \in {CLOSING, CLOSED}
  /\ hook.received <= 1

\* the one socket of the hook has been open for every event so far
OpenThroughout ==
  /\ hook.sockets = <<OPEN>>
  /\ ~ hook.missed

\* C38: for a hook whose one connection has been open since before
\* crawl_started, no category has more completed keywords than keywords,
\* and when crawl_completed is received every category of crawl_started is
\* completed, error or skipped.
C38_AllTerminalAtCompletion ==
  OpenThroughout =>
    /\ \A c \in DOMAIN hook.categoryProgress :
         hook.categoryProgress[c].keywordsCompleted
           <= hook.categoryProgress[c].totalKeywords
    /\ hook.last = "crawl_completed" =>
         /\ DOMAIN hook.categoryProgress = DOMAIN config
         /\ \A c \in DOMAIN hook.categoryProgress :
              hook.categoryProgress[c].status
                \in {"completed", "error", "skipped"}

====
